---- MODULE Spec2Model ----
(***************************************************************************)
(* Random Coffee community bot: the monthly matching engine                *)
(* (services/matching_service.py), the round ledger and history store      *)
(* (database/repositories/match_repo.py, database/connection.py) and the   *)
(* job orchestration around them (scheduler/jobs.py and the handlers).     *)
(***************************************************************************)
EXTENDS Integers, Sequences, FiniteSets, Bags, TLC

(* ----------------------------- bounds --------------------------------- *)
\* largest member id drawn for a roster handed directly to the engine
MaxRoster == 4
\* number of community members that can interact with the bot
NUsers == 2
\* number of calendar months the clock runs through
MaxPeriod == 2
\* number of failures (exceptions raised in a run, process restarts, follow-up
\* prompts and removal notices the gateway did not accept) in a behaviour
MaxFailures == 1
\* number of members in the users table when one job runs the matching alone
RunMembers == 3
\* length of a calendar month in days
DaysPerMonth == 28
\* a day late in the month on which the clock also stops
LateDay == 25
\* number of calendar months the follow-up and inactivity jobs run through
MaxMonth == 4
\* number of follow-up button presses and /test_followup commands in a behaviour
MaxUpdates == 2
\* writes a job body commits, over its attempts
MaxCommits == 2

(* ------------------------ program constants --------------------------- *)
\* scheduler/jobs.py: attempts of monthly_matching_job
MAX_RETRIES == 3
\* services/notification_service.py: default max_retries of send_with_retry
SEND_MAX_RETRIES == 3

\* database/repositories/followup_repo.py: datetime('now', '-7 days')
GRACE_DAYS == 7
\* services/inactivity_service.py
INACTIVITY_THRESHOLD == 3
\* scheduler/jobs.py: CronTrigger(day=...) of the matching / inactivity and the follow-up jobs
MATCHING_DAY == 1
FOLLOWUP_DAY == 7

RosterIds == 1..MaxRoster
Users == 1..NUsers
Periods == 1..MaxPeriod
\* scheduler job monthly_matching (max_instances=1) and the admin
\* force_match handler (updates are handled one at a time)
Callers == {"job", "admin"}
\* scheduler job monthly_followup and the admin test_followup handler
FCallers == {"followup_job", "test_followup"}
\* Python None / SQL NULL for ids
None == 0

\* ids of the jobs setup_scheduler registers
JobIds == {"monthly_matching", "monthly_followup", "inactivity_check"}

\* RETRY_DELAYS, in seconds
RETRY_DELAYS == <<60, 120, 300>>

\* a job that has not been triggered
IdleJob == [pc |-> "idle", attempt |-> 0, runs |-> 0, slept |-> <<>>,
            fatal |-> FALSE, commits |-> 0]

VARIABLES
    g_pc,        \* engine harness: "input" before the call, "output" after
    g_roster,    \* subscribers argument of _generate_matches (set of ids)
    g_hist,      \* historical_pairs argument (set of (id, id) tuples)
    g_users,     \* the list after random.shuffle
    g_matches,   \* value returned by _generate_matches
    responses,   \* streak harness: the responses processed for each member, one per period
    can_receive_dm, \* delivery harness: column users.can_receive_dm, by user_id
    send_call,   \* delivery harness: one send_*_notification call, its argument and outcome
    retry_jobs,  \* retry harness: the retry loop of each scheduled job, by job id
    join_call    \* button harness: the join_callback in progress, its locals and position

VARIABLES
    now,             \* datetime.now() as a month number
    users,           \* table users: user_id -> row
    matching_rounds, \* table matching_rounds, in id order
    matches,         \* table matches, in id order
    match_history,   \* table match_history, in id order
    outbox,          \* direct messages handed to send_match_notification
    group_posts,     \* group-channel summaries posted, by month
    failures,        \* exceptions and restarts so far
    stopped          \* ids of rounds whose creating call was lost before it had notified everyone

VARIABLES
    pc,            \* position of each caller of execute_monthly_matching
    attempt,       \* loop variable of monthly_matching_job
    month_year,    \* local month_year
    round_obj,     \* local round_obj (its id), None if not created
    subscribers,   \* local subscribers
    match_groups,  \* local matches (the generated groups)
    gi,            \* index of match_group in the for loop
    si,            \* index of the call inside the loop body
    match_id,      \* local match_obj.id
    dms_sent,      \* local dms_sent
    result         \* dict returned by the last call

VARIABLES
    day,             \* datetime.now(): day of the month
    follow_ups,      \* table follow_ups, in id order
    meeting_streaks, \* table meeting_streaks: user_id -> row, for the users that have one
    delivered,       \* bag of follow-up prompts and removal notices the gateway accepted
    updates,         \* follow-up button presses and /test_followup commands handled so far
    cron_fired,      \* cron triggers already fired at the current clock point
    f_pc,            \* position of each caller of monthly_followup_job
    f_todo,          \* its remaining (match, member) iterations
    i_pc,            \* position of inactivity_check_job
    i_todo           \* its remaining loop iterations

gvars == <<g_pc, g_roster, g_hist, g_users, g_matches, responses, can_receive_dm, send_call,
          retry_jobs, join_call>>
dbvars == <<users, matching_rounds, matches, match_history>>
envvars == <<now, outbox, group_posts, failures, stopped>>
locals == <<month_year, round_obj, subscribers, match_groups, gi, si, match_id, dms_sent>>
fuvars == <<day, follow_ups, meeting_streaks, delivered, updates, cron_fired,
            f_pc, f_todo, i_pc, i_todo>>
vars == <<gvars, fuvars, dbvars, envvars, pc, attempt, locals, result>>

(* ------------------------- pure helpers ------------------------------- *)
\* random.shuffle(users): every ordering of the roster
Shuffles(S) ==
    {s \in [1..Cardinality(S) -> S] : \A i, j \in 1..Cardinality(S) : i # j => s[i] # s[j]}

\* tuple(sorted([a, b]))
SortedPair(a, b) == IF a <= b THEN <<a, b>> ELSE <<b, a>>

\* all stored (smaller id first) pairs over a set of ids
OrderedPairs(S) == {<<a, b>> \in S \X S : a < b}

\* members of a group (a list of users) as a set
GroupSet(g) == {g[i] : i \in DOMAIN g}

(* ---------------- MatchingService._generate_matches ------------------- *)
can_pair(u1, u2, historical_pairs) == SortedPair(u1, u2) \notin historical_pairs

\* plausible slip: the inner loop does not skip the users already in `used`
RECURSIVE FindPartner_IgnoreUsed(_, _, _, _, _)
FindPartner_IgnoreUsed(us, i, j, used, historical_pairs) ==
    IF j > Len(us) THEN 0
    ELSE IF i = j
         THEN FindPartner_IgnoreUsed(us, i, j + 1, used, historical_pairs)
    ELSE IF can_pair(us[i], us[j], historical_pairs) THEN j
    ELSE FindPartner_IgnoreUsed(us, i, j + 1, used, historical_pairs)

\* plausible slip: the `break` is outside the `if`, only the first candidate is tried
RECURSIVE FindPartner_BreakAlways(_, _, _, _, _)
FindPartner_BreakAlways(us, i, j, used, historical_pairs) ==
    IF j > Len(us) THEN 0
    ELSE IF i = j \/ us[j] \in used
         THEN FindPartner_BreakAlways(us, i, j + 1, used, historical_pairs)
    ELSE IF can_pair(us[i], us[j], historical_pairs) THEN j
    ELSE 0

\* inner loop: index of the first user2 (j # i, not used) that can pair, 0 if none
RECURSIVE FindPartner(_, _, _, _, _)
FindPartner(us, i, j, used, historical_pairs) ==
    IF j > Len(us) THEN 0
    ELSE IF i = j \/ us[j] \in used
         THEN FindPartner(us, i, j + 1, used, historical_pairs)
    ELSE IF can_pair(us[i], us[j], historical_pairs) THEN j
    ELSE FindPartner(us, i, j + 1, used, historical_pairs)

\* plausible slip: the partner is not added to `used`
RECURSIVE ScanUsers_PartnerNotUsed(_, _, _, _, _, _)
ScanUsers_PartnerNotUsed(us, i, used, ms, unmatched, historical_pairs) ==
    IF i > Len(us) THEN [matches |-> ms, unmatched |-> unmatched]
    ELSE IF us[i] \in used
         THEN ScanUsers_PartnerNotUsed(us, i + 1, used, ms, unmatched, historical_pairs)
    ELSE LET p == FindPartner(us, i, 1, used, historical_pairs) IN
         IF p # 0
         THEN ScanUsers_PartnerNotUsed(us, i + 1, used \cup {us[i]},
                        Append(ms, <<us[i], us[p]>>), unmatched, historical_pairs)
         ELSE ScanUsers_PartnerNotUsed(us, i + 1, used, ms,
                        Append(unmatched, us[i]), historical_pairs)

\* outer loop over the shuffled users (lines 165-183)
RECURSIVE ScanUsers(_, _, _, _, _, _)
ScanUsers(us, i, used, ms, unmatched, historical_pairs) ==
    IF i > Len(us) THEN [matches |-> ms, unmatched |-> unmatched]
    ELSE IF us[i] \in used
         THEN ScanUsers(us, i + 1, used, ms, unmatched, historical_pairs)
    ELSE LET p == FindPartner(us, i, 1, used, historical_pairs) IN
         IF p # 0
         THEN ScanUsers(us, i + 1, used \cup {us[i], us[p]},
                        Append(ms, <<us[i], us[p]>>), unmatched, historical_pairs)
         ELSE ScanUsers(us, i + 1, used, ms,
                        Append(unmatched, us[i]), historical_pairs)

\* plausible slip: the repeat-allowed drain is missing, leftovers are dropped
DrainUnmatched_NoRepeat(ms, unmatched) ==
    [matches |-> ms,
     unmatched |-> IF Len(unmatched) >= 2 THEN <<>> ELSE unmatched]

\* while len(unmatched) >= 2: pop two from the end and pair them (lines 186-192)
RECURSIVE DrainUnmatched(_, _)
DrainUnmatched(ms, unmatched) ==
    IF Len(unmatched) >= 2
    THEN LET n == Len(unmatched) IN
         DrainUnmatched(Append(ms, <<unmatched[n], unmatched[n - 1]>>),
                        SubSeq(unmatched, 1, n - 2))
    ELSE [matches |-> ms, unmatched |-> unmatched]

\* plausible slip: the lonely user becomes a group of its own
AddLonely_OwnGroup(ms, unmatched, k) ==
    IF Len(unmatched) = 1 /\ Len(ms) > 0
    THEN Append(ms, <<unmatched[1]>>)
    ELSE ms

\* if one person is left, add to a random existing pair (lines 195-199);
\* k is the index random.choice picks
AddLonely(ms, unmatched, k) ==
    IF Len(unmatched) = 1 /\ Len(ms) > 0
    THEN [ms EXCEPT ![k] = Append(@, unmatched[1])]
    ELSE ms

\* the indices random.choice(matches) can return after scan and drain
ChoiceIndices(us, historical_pairs) ==
    LET s == ScanUsers(us, 1, {}, <<>>, <<>>, historical_pairs)
        d == DrainUnmatched(s.matches, s.unmatched)
    IN  IF Len(d.matches) > 0 THEN 1..Len(d.matches) ELSE {1}

\* us is the list after random.shuffle(users)
generate_matches(us, historical_pairs, k) ==
    LET s == ScanUsers(us, 1, {}, <<>>, <<>>, historical_pairs)
        d == DrainUnmatched(s.matches, s.unmatched)
    IN  AddLonely(d.matches, d.unmatched, k)

(* ------------------------- store operations --------------------------- *)
\* SELECT * FROM matching_rounds WHERE month_year = ? (first row), None if absent
RoundIndex(rounds, m) ==
    IF \E i \in DOMAIN rounds : rounds[i].month_year = m
    THEN CHOOSE i \in DOMAIN rounds :
            /\ rounds[i].month_year = m
            /\ \A j \in DOMAIN rounds : rounds[j].month_year = m => i <= j
    ELSE None

get_current_round(rounds, m) == RoundIndex(rounds, m)

\* plausible slip: the UNIQUE constraint on month_year is missing, every insert adds a row
InsertOrIgnoreRound_NoUnique(rounds, m) ==
    Append(rounds, [id |-> Len(rounds) + 1, month_year |-> m,
                    total_subscribers |-> 0, total_pairs |-> 0])

\* plausible slip: INSERT OR REPLACE, an existing row is reset to the placeholder
InsertOrIgnoreRound_Replace(rounds, m) ==
    IF RoundIndex(rounds, m) # None
    THEN [rounds EXCEPT ![RoundIndex(rounds, m)].total_subscribers = 0,
                        ![RoundIndex(rounds, m)].total_pairs = 0]
    ELSE Append(rounds, [id |-> Len(rounds) + 1, month_year |-> m,
                         total_subscribers |-> 0, total_pairs |-> 0])

\* INSERT OR IGNORE INTO matching_rounds (month_year, 0, 0); month_year is UNIQUE
InsertOrIgnoreRound(rounds, m) ==
    IF RoundIndex(rounds, m) # None
    THEN rounds
    ELSE Append(rounds, [id |-> Len(rounds) + 1, month_year |-> m,
                         total_subscribers |-> 0, total_pairs |-> 0])

\* plausible slip: the WHERE id = ? clause is missing, every row is updated
update_round_stats_AllRows(rounds, round_id, total_subscribers, total_pairs) ==
    [i \in DOMAIN rounds |->
        [rounds[i] EXCEPT !.total_subscribers = total_subscribers,
                          !.total_pairs = total_pairs]]

\* UPDATE matching_rounds SET total_subscribers = ?, total_pairs = ? WHERE id = ?
update_round_stats(rounds, round_id, total_subscribers, total_pairs) ==
    [i \in DOMAIN rounds |->
        IF rounds[i].id = round_id
        THEN [rounds[i] EXCEPT !.total_subscribers = total_subscribers,
                               !.total_pairs = total_pairs]
        ELSE rounds[i]]

\* plausible slip: INSERT OR REPLACE on a table keyed by the members, the
\* row of an earlier round is replaced when the same members meet again
create_match_Replace(tbl, round_id, group) ==
    LET same == {i \in DOMAIN tbl :
                    {tbl[i].user1_id, tbl[i].user2_id, tbl[i].user3_id} \ {None}
                        = {group[k] : k \in DOMAIN group}}
    IN  IF same # {}
        THEN [i \in DOMAIN tbl |-> IF i \in same
                                   THEN [tbl[i] EXCEPT !.round_id = round_id]
                                   ELSE tbl[i]]
        ELSE Append(tbl, [id |-> Len(tbl) + 1, round_id |-> round_id,
                          user1_id |-> group[1], user2_id |-> group[2],
                          user3_id |-> IF Len(group) = 3 THEN group[3] ELSE None])

\* INSERT INTO matches (round_id, user1_id, user2_id, user3_id)
create_match(tbl, round_id, group) ==
    Append(tbl, [id |-> Len(tbl) + 1, round_id |-> round_id,
                 user1_id |-> group[1], user2_id |-> group[2],
                 user3_id |-> IF Len(group) = 3 THEN group[3] ELSE None])

\* INSERT OR IGNORE INTO match_history: the table has no UNIQUE constraint
\* (only a plain index), so the insert is never ignored
add_to_history(hist, user_id_1, user_id_2, round_id) ==
    Append(hist, [user_id_1 |-> SortedPair(user_id_1, user_id_2)[1],
                  user_id_2 |-> SortedPair(user_id_1, user_id_2)[2],
                  round_id |-> round_id])

\* SELECT user_id_1, user_id_2 FROM match_history, as a set of tuples
get_historical_pairs(hist) ==
    {<<hist[i].user_id_1, hist[i].user_id_2>> : i \in DOMAIN hist}

have_been_matched(hist, user_id_1, user_id_2) ==
    \E i \in DOMAIN hist :
        /\ hist[i].user_id_1 = SortedPair(user_id_1, user_id_2)[1]
        /\ hist[i].user_id_2 = SortedPair(user_id_1, user_id_2)[2]

\* SELECT * FROM users WHERE is_subscribed = TRUE, in rowid order
RECURSIVE SortedSeq(_)
SortedSeq(S) ==
    IF S = {} THEN <<>>
    ELSE LET m == CHOOSE x \in S : \A y \in S : x <= y
         IN  <<m>> \o SortedSeq(S \ {m})

get_all_subscribers(tbl) == SortedSeq({u \in DOMAIN tbl : tbl[u].is_subscribed})

(* --------------------- follow-up and streak store ---------------------- *)
\* SQL NULL in follow_ups.response
Null == "null"

\* a timestamp, in days
Stamp(m, d) == (m - 1) * DaysPerMonth + d

\* SELECT * FROM follow_ups WHERE match_id = ? AND user_id = ?, None if absent
get_followup(tbl, mid, user_id) ==
    IF \E i \in DOMAIN tbl : tbl[i].match_id = mid /\ tbl[i].user_id = user_id
    THEN CHOOSE i \in DOMAIN tbl :
            /\ tbl[i].match_id = mid /\ tbl[i].user_id = user_id
            /\ \A j \in DOMAIN tbl :
                  (tbl[j].match_id = mid /\ tbl[j].user_id = user_id) => i <= j
    ELSE None

\* plausible slip: a plain INSERT, no ON CONFLICT clause and no UNIQUE key
create_followup_PlainInsert(tbl, mid, user_id, t) ==
    Append(tbl, [id |-> Len(tbl) + 1, match_id |-> mid, user_id |-> user_id,
                 question_sent_at |-> t, response |-> Null])

\* INSERT INTO follow_ups ... ON CONFLICT(match_id, user_id) DO UPDATE SET
\* question_sent_at = excluded.question_sent_at
create_followup(tbl, mid, user_id, t) ==
    IF get_followup(tbl, mid, user_id) # None
    THEN [tbl EXCEPT ![get_followup(tbl, mid, user_id)].question_sent_at = t]
    ELSE Append(tbl, [id |-> Len(tbl) + 1, match_id |-> mid, user_id |-> user_id,
                      question_sent_at |-> t, response |-> Null])

\* UPDATE follow_ups SET response = ? WHERE match_id = ? AND user_id = ?
\* (responded_at is written here and read nowhere; it is not kept)
record_response(tbl, mid, user_id, response) ==
    [i \in DOMAIN tbl |->
        IF tbl[i].match_id = mid /\ tbl[i].user_id = user_id
        THEN [tbl[i] EXCEPT !.response = response]
        ELSE tbl[i]]

\* plausible slip: the age condition is missing
get_unanswered_followups_AnyAge(tbl, t) ==
    SelectSeq(tbl, LAMBDA row : row.response = Null)

\* SELECT * FROM follow_ups WHERE response IS NULL
\*   AND datetime(question_sent_at) <= datetime('now', '-7 days')
get_unanswered_followups(tbl, t) ==
    SelectSeq(tbl, LAMBDA row : row.response = Null
                                /\ row.question_sent_at <= t - GRACE_DAYS)

\* SELECT * FROM matches WHERE round_id = ?
get_matches_for_round(tbl, round_id) ==
    SelectSeq(tbl, LAMBDA row : row.round_id = round_id)

\* the row of user_id in table tbl with the columns of row
Upsert(tbl, user_id, row) ==
    [u \in DOMAIN tbl \cup {user_id} |-> IF u = user_id THEN row ELSE tbl[u]]

\* SELECT * FROM meeting_streaks WHERE user_id = ?: consecutive_misses, 0 here if absent
Misses(tbl, user_id) ==
    IF user_id \in DOMAIN tbl THEN tbl[user_id].consecutive_misses ELSE 0

\* INSERT ... VALUES (?, 1, ?) ON CONFLICT(user_id) DO UPDATE SET
\* consecutive_misses = consecutive_misses + 1, last_updated_month = excluded...
increment_miss(tbl, user_id, m) ==
    Upsert(tbl, user_id,
           [consecutive_misses |-> IF user_id \in DOMAIN tbl
                                   THEN tbl[user_id].consecutive_misses + 1 ELSE 1,
            last_updated_month |-> m])

\* plausible slip: reset_streak leaves the counter of an existing row alone
reset_streak_KeepCount(tbl, user_id, m) ==
    Upsert(tbl, user_id,
           [consecutive_misses |-> Misses(tbl, user_id), last_updated_month |-> m])

\* INSERT ... VALUES (?, 0, ?) ON CONFLICT(user_id) DO UPDATE SET consecutive_misses = 0
reset_streak(tbl, user_id, m) ==
    Upsert(tbl, user_id, [consecutive_misses |-> 0, last_updated_month |-> m])

\* InactivityService.process_followup_response
process_followup_response(tbl, user_id, response, m) ==
    IF response = "yes" THEN reset_streak(tbl, user_id, m)
    ELSE increment_miss(tbl, user_id, m)

\* plausible slip: the join with users (is_subscribed = TRUE) is missing
get_inactive_users_NoJoin(streaks, utbl, threshold) ==
    SortedSeq({u \in DOMAIN streaks : streaks[u].consecutive_misses >= threshold})

\* SELECT ms.user_id FROM meeting_streaks ms JOIN users u ON ...
\* WHERE ms.consecutive_misses >= ? AND u.is_subscribed = TRUE
get_inactive_users(streaks, utbl, threshold) ==
    SortedSeq({u \in DOMAIN streaks \cap DOMAIN utbl :
                  /\ streaks[u].consecutive_misses >= threshold
                  /\ utbl[u].is_subscribed})

\* member ids of a matches row, in the order the follow-up job prompts them
MemberList(row) ==
    IF row.user3_id # None THEN <<row.user1_id, row.user2_id, row.user3_id>>
    ELSE <<row.user1_id, row.user2_id>>

(* ------------------------ notification gateway ------------------------- *)
GatewayOutcomes == {"ok", "retry_after", "forbidden", "error"}

\* plausible slip: Forbidden is retried like any other error
RECURSIVE send_with_retry_RetryForbidden(_, _, _)
send_with_retry_RetryForbidden(outs, a, max_retries) ==
    IF a > max_retries THEN "none"
    ELSE IF outs[a] = "ok" THEN "message"
    ELSE IF outs[a] = "retry_after" THEN send_with_retry_RetryForbidden(outs, a + 1, max_retries)
    ELSE IF a = max_retries THEN (IF outs[a] = "forbidden" THEN "forbidden" ELSE "raise")
    ELSE send_with_retry_RetryForbidden(outs, a + 1, max_retries)

\* plausible slip: the last attempt's error is logged like the others, not raised
RECURSIVE send_with_retry_SwallowLast(_, _, _)
send_with_retry_SwallowLast(outs, a, max_retries) ==
    IF a > max_retries THEN "none"
    ELSE IF outs[a] = "ok" THEN "message"
    ELSE IF outs[a] = "retry_after" THEN send_with_retry_SwallowLast(outs, a + 1, max_retries)
    ELSE IF outs[a] = "forbidden" THEN "forbidden"
    ELSE send_with_retry_SwallowLast(outs, a + 1, max_retries)

\* send_with_retry: outs[a] is what bot.send_message does at attempt a
RECURSIVE send_with_retry(_, _, _)
send_with_retry(outs, a, max_retries) ==
    IF a > max_retries THEN "none"
    ELSE IF outs[a] = "ok" THEN "message"
    ELSE IF outs[a] = "retry_after" THEN send_with_retry(outs, a + 1, max_retries)
    ELSE IF outs[a] = "forbidden" THEN "forbidden"
    ELSE IF a = max_retries THEN "raise"
    ELSE send_with_retry(outs, a + 1, max_retries)

\* the number of bot.send_message calls send_with_retry makes
RECURSIVE SendAttempts(_, _, _)
SendAttempts(outs, a, max_retries) ==
    IF a > max_retries THEN max_retries
    ELSE IF outs[a] = "ok" THEN a
    ELSE IF outs[a] = "retry_after" THEN SendAttempts(outs, a + 1, max_retries)
    ELSE IF outs[a] = "forbidden" THEN a
    ELSE IF a = max_retries THEN a
    ELSE SendAttempts(outs, a + 1, max_retries)

\* the value send_match_notification returns for a send_with_retry outcome
send_match_notification(r) == r \in {"message", "none"}

\* no call made in the delivery harness
NoCall == [kind |-> "none", user_id |-> None, outs |-> <<>>, attempts |-> 0,
           returned |-> FALSE, done |-> FALSE]

\* no join_callback has been handled yet
NoJoin == [pc |-> "idle", user_id |-> None, was_subscribed |-> FALSE,
           welcome |-> "none", outcome |-> "none"]

(* ----------------------------- handlers ------------------------------- *)
NoResult == [status |-> "none", month_year |-> None, total_subscribers |-> 0,
             total_pairs |-> 0, dms_sent |-> 0]

\* the state after init_db on a fresh database file holding the users
\* table tbl, nothing scheduled yet
FreshBot(tbl) ==
    /\ now = 1
    /\ day = 1
    /\ users = tbl
    /\ follow_ups = <<>>
    /\ meeting_streaks = <<>>
    /\ delivered = EmptyBag
    /\ updates = 0
    /\ cron_fired = {}
    /\ f_pc = [c \in FCallers |-> "idle"]
    /\ f_todo = [c \in FCallers |-> <<>>]
    /\ i_pc = "idle"
    /\ i_todo = <<>>
    /\ matching_rounds = <<>>
    /\ matches = <<>>
    /\ match_history = <<>>
    /\ outbox = <<>>
    /\ group_posts = <<>>
    /\ failures = 0
    /\ stopped = {}
    /\ pc = [c \in Callers |-> "idle"]
    /\ attempt = 0
    /\ month_year = [c \in Callers |-> None]
    /\ round_obj = [c \in Callers |-> None]
    /\ subscribers = [c \in Callers |-> <<>>]
    /\ match_groups = [c \in Callers |-> <<>>]
    /\ gi = [c \in Callers |-> 0]
    /\ si = [c \in Callers |-> 0]
    /\ match_id = [c \in Callers |-> None]
    /\ dms_sent = [c \in Callers |-> 0]
    /\ result = [c \in Callers |-> NoResult]

BotInit == FreshBot([u \in Users |-> [is_subscribed |-> FALSE]])

Init ==
    /\ g_pc = "off" /\ g_roster = {} /\ g_hist = {} /\ g_users = <<>> /\ g_matches = <<>>
    /\ responses = [u \in Users |-> <<>>]
    /\ can_receive_dm = [u \in Users |-> TRUE] /\ send_call = NoCall
    /\ retry_jobs = [j \in JobIds |-> IdleJob]
    /\ join_call = NoJoin
    /\ BotInit

\* the locals of a call frame are gone once the call returns or raises
DropLocals(c) ==
    /\ month_year' = [month_year EXCEPT ![c] = None]
    /\ round_obj' = [round_obj EXCEPT ![c] = None]
    /\ subscribers' = [subscribers EXCEPT ![c] = <<>>]
    /\ match_groups' = [match_groups EXCEPT ![c] = <<>>]
    /\ gi' = [gi EXCEPT ![c] = 0]
    /\ si' = [si EXCEPT ![c] = 0]
    /\ match_id' = [match_id EXCEPT ![c] = None]
    /\ dms_sent' = [dms_sent EXCEPT ![c] = 0]

\* join_callback: toggle; a new member is subscribed only after the welcome DM
join_callback(u) ==
    /\ \/ /\ users[u].is_subscribed
          /\ users' = [users EXCEPT ![u].is_subscribed = FALSE]
       \/ /\ ~users[u].is_subscribed
          /\ \E welcome \in {"ok", "forbidden"} :
                users' = IF welcome = "ok"
                         THEN [users EXCEPT ![u].is_subscribed = TRUE]
                         ELSE users
    /\ UNCHANGED <<gvars, fuvars, matching_rounds, matches, match_history, envvars,
                   pc, attempt, locals, result>>

\* plausible slip: leaving also deletes the history rows of the member
leave_callback_ForgetHistory(u) ==
    /\ users[u].is_subscribed
    /\ users' = [users EXCEPT ![u].is_subscribed = FALSE]
    /\ match_history' = SelectSeq(match_history,
                            LAMBDA row : row.user_id_1 # u /\ row.user_id_2 # u)
    /\ UNCHANGED <<gvars, fuvars, matching_rounds, matches, envvars,
                   pc, attempt, locals, result>>

\* leave_callback
leave_callback(u) ==
    /\ users[u].is_subscribed
    /\ users' = [users EXCEPT ![u].is_subscribed = FALSE]
    /\ UNCHANGED <<gvars, fuvars, matching_rounds, matches, match_history, envvars,
                   pc, attempt, locals, result>>

\* the calendar month changes; a run lasts minutes and a period a month, so
\* the month is taken to change while no call is in flight
Tick ==
    /\ now < MaxPeriod
    /\ \A c \in Callers : pc[c] = "idle"
    /\ now' = now + 1
    /\ UNCHANGED <<gvars, fuvars, dbvars, outbox, group_posts, failures, stopped,
                   pc, attempt, locals, result>>

\* the scheduler fires monthly_matching_job
monthly_matching_job ==
    /\ pc["job"] = "idle"
    /\ pc' = [pc EXCEPT !["job"] = "create"]
    /\ attempt' = 0
    /\ result' = [result EXCEPT !["job"] = NoResult]
    /\ UNCHANGED <<gvars, fuvars, dbvars, envvars, locals>>

\* an admin sends /force_match
force_match ==
    /\ pc["admin"] = "idle"
    /\ pc' = [pc EXCEPT !["admin"] = "create"]
    /\ result' = [result EXCEPT !["admin"] = NoResult]
    /\ UNCHANGED <<gvars, fuvars, dbvars, envvars, attempt, locals>>

(* ------------- MatchingService.execute_monthly_matching ---------------- *)
Running == {"create", "existing", "subs", "stats0", "gen", "stats",
            "create_match", "add_to_history", "notify", "announce"}
\* positions between begin_round succeeding and the last notification
Unfinished == {"subs", "stats0", "gen", "stats", "create_match", "add_to_history", "notify"}

\* plausible slip: a group of 3 is recorded like a pair
HistoryCalls_PairOnly(group) == <<<<1, 2>>>>

\* the pairs of a group recorded in history, in call order (lines 71, 92-94)
HistoryCalls(group) ==
    IF Len(group) = 2 THEN <<<<1, 2>>>> ELSE <<<<1, 2>>, <<1, 3>>, <<2, 3>>>>

\* the call returns `res` to its caller
Return(c, res) ==
    /\ pc' = [pc EXCEPT ![c] = "returned"]
    /\ result' = [result EXCEPT ![c] = res]
    /\ DropLocals(c)

\* plausible slip: get-or-create, the existing round is handed to the caller
create_round_atomic_GetOrCreate(c) ==
    /\ pc[c] = "create"
    /\ LET after == InsertOrIgnoreRound(matching_rounds, now)
       IN  /\ matching_rounds' = after
           /\ month_year' = [month_year EXCEPT ![c] = now]
           /\ round_obj' = [round_obj EXCEPT ![c] = after[RoundIndex(after, now)].id]
           /\ pc' = [pc EXCEPT ![c] = "subs"]
    /\ UNCHANGED <<gvars, fuvars, users, matches, match_history, envvars, attempt,
                   subscribers, match_groups, gi, si, match_id, dms_sent, result>>

\* plausible slip: a round still at (0, 0) is resumed by the next caller
create_round_atomic_Resume(c) ==
    /\ pc[c] = "create"
    /\ LET after == InsertOrIgnoreRound(matching_rounds, now)
           row == after[RoundIndex(after, now)]
           fresh == Len(after) > Len(matching_rounds)
                    \/ (row.total_subscribers = 0 /\ row.total_pairs = 0)
       IN  /\ matching_rounds' = after
           /\ month_year' = [month_year EXCEPT ![c] = now]
           /\ IF ~fresh
              THEN /\ round_obj' = [round_obj EXCEPT ![c] = None]
                   /\ pc' = [pc EXCEPT ![c] = "existing"]
              ELSE /\ round_obj' = [round_obj EXCEPT ![c] = row.id]
                   /\ pc' = [pc EXCEPT ![c] = "subs"]
    /\ UNCHANGED <<gvars, fuvars, users, matches, match_history, envvars, attempt,
                   subscribers, match_groups, gi, si, match_id, dms_sent, result>>

\* lines 18-23: month_year and create_round_atomic
create_round_atomic(c) ==
    /\ pc[c] = "create"
    /\ LET after == InsertOrIgnoreRound(matching_rounds, now)
           rowcount == Len(after) - Len(matching_rounds)
       IN  /\ matching_rounds' = after
           /\ month_year' = [month_year EXCEPT ![c] = now]
           /\ IF rowcount = 0
              THEN /\ round_obj' = [round_obj EXCEPT ![c] = None]
                   /\ pc' = [pc EXCEPT ![c] = "existing"]
              ELSE /\ round_obj' = [round_obj EXCEPT ![c] = after[Len(after)].id]
                   /\ pc' = [pc EXCEPT ![c] = "subs"]
    /\ UNCHANGED <<gvars, fuvars, users, matches, match_history, envvars, attempt,
                   subscribers, match_groups, gi, si, match_id, dms_sent, result>>

\* plausible slip: the summary is posted on the 'already_done' path too
already_done_Announce(c) ==
    /\ pc[c] = "existing"
    /\ get_current_round(matching_rounds, month_year[c]) # None
    /\ LET existing_round == matching_rounds[get_current_round(matching_rounds, month_year[c])]
       IN  Return(c, [status |-> "already_done", month_year |-> month_year[c],
                      total_subscribers |-> existing_round.total_subscribers,
                      total_pairs |-> existing_round.total_pairs,
                      dms_sent |-> 0])
    /\ group_posts' = Append(group_posts, month_year[c])
    /\ UNCHANGED <<gvars, fuvars, dbvars, now, outbox, failures, stopped, attempt>>

\* lines 23-33: the round already exists; were get_current_round to return
\* None, reading existing_round.total_subscribers would raise instead
already_done(c) ==
    /\ pc[c] = "existing"
    /\ get_current_round(matching_rounds, month_year[c]) # None
    /\ LET existing_round == matching_rounds[get_current_round(matching_rounds, month_year[c])]
       IN  Return(c, [status |-> "already_done", month_year |-> month_year[c],
                      total_subscribers |-> existing_round.total_subscribers,
                      total_pairs |-> existing_round.total_pairs,
                      dms_sent |-> 0])
    /\ UNCHANGED <<gvars, fuvars, dbvars, envvars, attempt>>

\* plausible slip: the population test is `< 1`, a lone subscriber reaches the engine
read_subscribers_AtLeastOne(c) ==
    /\ pc[c] = "subs"
    /\ subscribers' = [subscribers EXCEPT ![c] = get_all_subscribers(users)]
    /\ pc' = [pc EXCEPT ![c] = IF Len(get_all_subscribers(users)) < 1
                               THEN "stats0" ELSE "gen"]
    /\ UNCHANGED <<gvars, fuvars, dbvars, envvars, attempt,
                   month_year, round_obj, match_groups, gi, si, match_id,
                   dms_sent, result>>

\* lines 36-39: read the roster
read_subscribers(c) ==
    /\ pc[c] = "subs"
    /\ subscribers' = [subscribers EXCEPT ![c] = get_all_subscribers(users)]
    /\ pc' = [pc EXCEPT ![c] = IF Len(get_all_subscribers(users)) < 2
                               THEN "stats0" ELSE "gen"]
    /\ UNCHANGED <<gvars, fuvars, dbvars, envvars, attempt,
                   month_year, round_obj, match_groups, gi, si, match_id,
                   dms_sent, result>>

\* lines 39-49: fewer than 2 subscribers
not_enough(c) ==
    /\ pc[c] = "stats0"
    /\ matching_rounds' = update_round_stats(matching_rounds, round_obj[c],
                                             Len(subscribers[c]), 0)
    /\ Return(c, [status |-> "not_enough", month_year |-> month_year[c],
                  total_subscribers |-> Len(subscribers[c]),
                  total_pairs |-> 0, dms_sent |-> 0])
    /\ UNCHANGED <<gvars, fuvars, users, matches, match_history, envvars, attempt>>

\* lines 52-55: read the history and run the engine
generate(c) ==
    /\ pc[c] = "gen"
    /\ \E us \in Shuffles(GroupSet(subscribers[c])) :
         \E k \in ChoiceIndices(us, get_historical_pairs(match_history)) :
            match_groups' = [match_groups EXCEPT ![c] =
                generate_matches(us, get_historical_pairs(match_history), k)]
    /\ pc' = [pc EXCEPT ![c] = "stats"]
    /\ UNCHANGED <<gvars, fuvars, dbvars, envvars, attempt, month_year, round_obj,
                   subscribers, gi, si, match_id, dms_sent, result>>

\* what follows the loop body of group gi[c]
NextGroup(c) ==
    IF gi[c] < Len(match_groups[c])
    THEN /\ gi' = [gi EXCEPT ![c] = gi[c] + 1]
         /\ pc' = [pc EXCEPT ![c] = "create_match"]
    ELSE /\ gi' = gi
         /\ pc' = [pc EXCEPT ![c] = "announce"]

\* plausible slip: the subscriber total is derived from the pairs (2 per pair)
finalize_round_TwoPerPair(c) ==
    /\ pc[c] = "stats"
    /\ matching_rounds' = update_round_stats(matching_rounds, round_obj[c],
                                  2 * Len(match_groups[c]), Len(match_groups[c]))
    /\ IF Len(match_groups[c]) > 0
       THEN /\ gi' = [gi EXCEPT ![c] = 1]
            /\ pc' = [pc EXCEPT ![c] = "create_match"]
       ELSE /\ gi' = gi
            /\ pc' = [pc EXCEPT ![c] = "announce"]
    /\ UNCHANGED <<gvars, fuvars, users, matches, match_history, envvars, attempt,
                   month_year, round_obj, subscribers, match_groups, si,
                   match_id, dms_sent, result>>

\* line 58: update_round_stats, before any group is saved
finalize_round(c) ==
    /\ pc[c] = "stats"
    /\ matching_rounds' = update_round_stats(matching_rounds, round_obj[c],
                                  Len(subscribers[c]), Len(match_groups[c]))
    /\ IF Len(match_groups[c]) > 0
       THEN /\ gi' = [gi EXCEPT ![c] = 1]
            /\ pc' = [pc EXCEPT ![c] = "create_match"]
       ELSE /\ gi' = gi
            /\ pc' = [pc EXCEPT ![c] = "announce"]
    /\ UNCHANGED <<gvars, fuvars, users, matches, match_history, envvars, attempt,
                   month_year, round_obj, subscribers, match_groups, si,
                   match_id, dms_sent, result>>

\* lines 65-69, 85-90: MatchRepository.create_match for group gi
save_match(c) ==
    /\ pc[c] = "create_match"
    /\ matches' = create_match(matches, round_obj[c], match_groups[c][gi[c]])
    /\ match_id' = [match_id EXCEPT ![c] = Len(matches) + 1]
    /\ si' = [si EXCEPT ![c] = 1]
    /\ pc' = [pc EXCEPT ![c] = "add_to_history"]
    /\ UNCHANGED <<gvars, fuvars, users, matching_rounds, match_history, envvars, attempt,
                   month_year, round_obj, subscribers, match_groups, gi,
                   dms_sent, result>>

\* lines 71, 92-94: one add_to_history call
record_history(c) ==
    /\ pc[c] = "add_to_history"
    /\ LET group == match_groups[c][gi[c]]
           calls == HistoryCalls(group)
           pr == calls[si[c]]
       IN  /\ match_history' = add_to_history(match_history, group[pr[1]],
                                              group[pr[2]], round_obj[c])
           /\ IF si[c] < Len(calls)
              THEN /\ si' = [si EXCEPT ![c] = si[c] + 1]
                   /\ pc' = pc
              ELSE /\ si' = [si EXCEPT ![c] = 1]
                   /\ pc' = [pc EXCEPT ![c] = "notify"]
    /\ UNCHANGED <<gvars, fuvars, users, matching_rounds, matches, envvars, attempt,
                   month_year, round_obj, subscribers, match_groups, gi,
                   match_id, dms_sent, result>>

\* lines 74-81, 97-108: one send_match_notification call
notify_member(c) ==
    /\ pc[c] = "notify"
    /\ LET group == match_groups[c][gi[c]] IN
       \E outs \in [1..SEND_MAX_RETRIES -> GatewayOutcomes] :
         LET r == send_with_retry(outs, 1, SEND_MAX_RETRIES) IN
         /\ outbox' = Append(outbox, [chat_id |-> group[si[c]],
                                      match_id |-> match_id[c]])
         /\ dms_sent' = [dms_sent EXCEPT ![c] =
                            IF send_match_notification(r) THEN @ + 1 ELSE @]
         /\ IF si[c] < Len(group)
            THEN /\ si' = [si EXCEPT ![c] = si[c] + 1]
                 /\ pc' = pc
                 /\ gi' = gi
            ELSE /\ si' = [si EXCEPT ![c] = 0]
                 /\ NextGroup(c)
    /\ UNCHANGED <<gvars, fuvars, dbvars, now, group_posts, failures, stopped, attempt,
                   month_year, round_obj, subscribers, match_groups,
                   match_id, result>>

\* lines 113-121: _post_group_announcement, then return
post_group_announcement(c) ==
    /\ pc[c] = "announce"
    /\ \E posted \in BOOLEAN :
         group_posts' = IF posted THEN Append(group_posts, month_year[c])
                        ELSE group_posts
    /\ Return(c, [status |-> "success", month_year |-> month_year[c],
                  total_subscribers |-> Len(subscribers[c]),
                  total_pairs |-> Len(match_groups[c]),
                  dms_sent |-> dms_sent[c]])
    /\ UNCHANGED <<gvars, fuvars, dbvars, now, outbox, failures, stopped, attempt>>

\* the caller consumes the returned dict: monthly_matching_job logs it and
\* returns (jobs.py 27-29), force_match sends it to the admin
\* (admin_handler.py 137-142)
report_result(c) ==
    /\ pc[c] = "returned"
    /\ pc' = [pc EXCEPT ![c] = "idle"]
    /\ result' = [result EXCEPT ![c] = NoResult]
    /\ UNCHANGED <<gvars, fuvars, dbvars, envvars, attempt, locals>>

\* plausible slip: a failed run rolls its round back so that the retry can run again
raise_exception_Rollback(c) ==
    /\ pc[c] \in Running
    /\ failures < MaxFailures
    /\ failures' = failures + 1
    /\ stopped' = IF pc[c] \in Unfinished THEN stopped \cup {round_obj[c]} ELSE stopped
    /\ DropLocals(c)
    /\ matching_rounds' = SelectSeq(matching_rounds, LAMBDA r : r.id # round_obj[c])
    /\ attempt' = IF c = "job" /\ attempt < MAX_RETRIES - 1 THEN attempt + 1 ELSE attempt
    /\ pc' = [pc EXCEPT ![c] = IF c = "job"
                               THEN (IF attempt < MAX_RETRIES - 1 THEN "create" ELSE "idle")
                               ELSE "returned"]
    /\ result' = IF c = "job" THEN result
                 ELSE [result EXCEPT ![c] = [NoResult EXCEPT !.status = "failed"]]
    /\ UNCHANGED <<gvars, fuvars, users, matches, match_history, now, outbox, group_posts>>

\* an exception leaves execute_monthly_matching at one of its awaits:
\* monthly_matching_job retries (jobs.py 30-36), force_match reports it
\* (admin_handler.py 143-145)
raise_exception(c) ==
    /\ pc[c] \in Running
    /\ failures < MaxFailures
    /\ failures' = failures + 1
    /\ stopped' = IF pc[c] \in Unfinished THEN stopped \cup {round_obj[c]} ELSE stopped
    /\ DropLocals(c)
    /\ IF c = "job"
       THEN IF attempt < MAX_RETRIES - 1
            THEN /\ attempt' = attempt + 1
                 /\ pc' = [pc EXCEPT ![c] = "create"]
                 /\ result' = result
            ELSE /\ attempt' = attempt
                 /\ pc' = [pc EXCEPT ![c] = "idle"]
                 /\ result' = result
       ELSE /\ attempt' = attempt
            /\ pc' = [pc EXCEPT ![c] = "returned"]
            /\ result' = [result EXCEPT ![c] = [NoResult EXCEPT !.status = "failed"]]
    /\ UNCHANGED <<gvars, fuvars, dbvars, now, outbox, group_posts>>

\* the process stops and is started again: the database file survives,
\* every running call is gone
restart ==
    /\ \E c \in Callers : pc[c] # "idle"
    /\ failures < MaxFailures
    /\ failures' = failures + 1
    /\ stopped' = stopped \cup {round_obj[c] : c \in {d \in Callers : pc[d] \in Unfinished}}
    /\ pc' = [c \in Callers |-> "idle"]
    /\ attempt' = 0
    /\ month_year' = [c \in Callers |-> None]
    /\ round_obj' = [c \in Callers |-> None]
    /\ subscribers' = [c \in Callers |-> <<>>]
    /\ match_groups' = [c \in Callers |-> <<>>]
    /\ gi' = [c \in Callers |-> 0]
    /\ si' = [c \in Callers |-> 0]
    /\ match_id' = [c \in Callers |-> None]
    /\ dms_sent' = [c \in Callers |-> 0]
    /\ result' = [c \in Callers |-> NoResult]
    /\ f_pc' = [c \in FCallers |-> "idle"]
    /\ f_todo' = [c \in FCallers |-> <<>>]
    /\ i_pc' = "idle"
    /\ i_todo' = <<>>
    /\ UNCHANGED <<gvars, day, follow_ups, meeting_streaks, delivered, updates,
                   cron_fired, dbvars, now, outbox, group_posts>>

Next ==
    \/ \E u \in Users : join_callback(u)
    \/ \E u \in Users : leave_callback(u)
    \/ Tick
    \/ monthly_matching_job
    \/ force_match
    \/ \E c \in Callers : create_round_atomic(c)
    \/ \E c \in Callers : already_done(c)
    \/ \E c \in Callers : read_subscribers(c)
    \/ \E c \in Callers : not_enough(c)
    \/ \E c \in Callers : generate(c)
    \/ \E c \in Callers : finalize_round(c)
    \/ \E c \in Callers : save_match(c)
    \/ \E c \in Callers : record_history(c)
    \/ \E c \in Callers : notify_member(c)
    \/ \E c \in Callers : post_group_announcement(c)
    \/ \E c \in Callers : report_result(c)
    \/ \E c \in Callers : raise_exception(c)
    \/ restart

Spec == Init /\ [][Next]_vars

(* --------------- the engine called on arbitrary inputs ---------------- *)
InitGen ==
    /\ g_pc = "input"
    /\ g_roster \in {R \in SUBSET RosterIds : Cardinality(R) >= 2}
    /\ g_hist \in SUBSET OrderedPairs(RosterIds)
    /\ g_users = <<>>
    /\ g_matches = <<>>
    /\ responses = [u \in Users |-> <<>>]
    /\ can_receive_dm = [u \in Users |-> TRUE] /\ send_call = NoCall
    /\ retry_jobs = [j \in JobIds |-> IdleJob]
    /\ join_call = NoJoin
    /\ BotInit

CallGenerate ==
    /\ g_pc = "input"
    /\ \E us \in Shuffles(g_roster) :
         \E k \in ChoiceIndices(us, g_hist) :
            /\ g_users' = us
            /\ g_matches' = generate_matches(us, g_hist, k)
    /\ g_pc' = "output"
    /\ UNCHANGED <<g_roster, g_hist, responses, can_receive_dm, send_call,
                   retry_jobs, join_call, fuvars, dbvars, envvars, pc, attempt, locals, result>>

NextGen == CallGenerate

SpecGen == InitGen /\ [][NextGen]_vars

(* ------------------------ clock and cron triggers ---------------------- *)
\* no job and no handler is running
AllIdle ==
    /\ \A c \in Callers : pc[c] = "idle"
    /\ \A c \in FCallers : f_pc[c] = "idle"
    /\ i_pc = "idle"

\* updates are handled one at a time: no other handler is running. A
\* matching run touches no table the follow-up code writes, so the follow-up
\* handlers are taken to run before or after it, not in between its steps
HandlerFree ==
    /\ \A c \in Callers : pc[c] = "idle"
    /\ f_pc["test_followup"] = "idle"

\* the jobs the scheduler fires on day d
DueJobs(d) ==
    IF d = MATCHING_DAY THEN {"monthly_matching", "inactivity_check"}
    ELSE IF d = FOLLOWUP_DAY THEN {"monthly_followup"}
    ELSE {}

\* time passes to the next day the clock stops at; a job run lasts minutes,
\* so the clock is taken to move while nothing is running, and the scheduler
\* of a running process has fired the jobs of the day; the clock stops for
\* good at the first day of month last_month
AdvanceClock(last_month) ==
    /\ AllIdle
    /\ DueJobs(day) \subseteq cron_fired
    /\ IF day = MATCHING_DAY THEN now < last_month /\ day' = FOLLOWUP_DAY /\ now' = now
       ELSE IF day = FOLLOWUP_DAY THEN day' = LateDay /\ now' = now
       ELSE day' = MATCHING_DAY /\ now' = now + 1
    /\ cron_fired' = {}
    /\ UNCHANGED <<gvars, follow_ups, meeting_streaks, delivered, updates,
                   f_pc, f_todo, i_pc, i_todo, dbvars, outbox, group_posts,
                   failures, stopped, pc, attempt, locals, result>>

\* CronTrigger(day=1, hour=10, minute=0): monthly_matching_job
cron_monthly_matching ==
    /\ day = MATCHING_DAY
    /\ "monthly_matching" \notin cron_fired
    /\ pc["job"] = "idle"
    /\ cron_fired' = cron_fired \cup {"monthly_matching"}
    /\ pc' = [pc EXCEPT !["job"] = "create"]
    /\ attempt' = 0
    /\ result' = [result EXCEPT !["job"] = NoResult]
    /\ UNCHANGED <<gvars, day, follow_ups, meeting_streaks, delivered, updates,
                   f_pc, f_todo, i_pc, i_todo, dbvars, envvars, locals>>

\* CronTrigger(day=7, hour=10, minute=0): monthly_followup_job
cron_monthly_followup ==
    /\ day = FOLLOWUP_DAY
    /\ "monthly_followup" \notin cron_fired
    /\ f_pc["followup_job"] = "idle"
    /\ cron_fired' = cron_fired \cup {"monthly_followup"}
    /\ f_pc' = [f_pc EXCEPT !["followup_job"] = "round"]
    /\ UNCHANGED <<gvars, day, follow_ups, meeting_streaks, delivered, updates,
                   f_todo, i_pc, i_todo, dbvars, envvars, pc, attempt, locals, result>>

\* plausible slip: the inactivity trigger is set half an hour before the
\* matching trigger (09:30), the check runs on the roster matching will read
cron_inactivity_check_BeforeMatching ==
    /\ day = MATCHING_DAY
    /\ "monthly_matching" \notin cron_fired
    /\ pc["job"] = "idle"
    /\ "inactivity_check" \notin cron_fired
    /\ i_pc = "idle"
    /\ cron_fired' = cron_fired \cup {"inactivity_check"}
    /\ i_pc' = "sweep"
    /\ UNCHANGED <<gvars, day, follow_ups, meeting_streaks, delivered, updates,
                   f_pc, f_todo, i_todo, dbvars, envvars, pc, attempt, locals, result>>

\* plausible slip: the job computes the inactive members without sweeping first
cron_inactivity_check_CheckFirst ==
    /\ day = MATCHING_DAY
    /\ "monthly_matching" \in cron_fired
    /\ pc["job"] = "idle"
    /\ "inactivity_check" \notin cron_fired
    /\ i_pc = "idle"
    /\ cron_fired' = cron_fired \cup {"inactivity_check"}
    /\ i_pc' = "check"
    /\ UNCHANGED <<gvars, day, follow_ups, meeting_streaks, delivered, updates,
                   f_pc, f_todo, i_todo, dbvars, envvars, pc, attempt, locals, result>>

\* CronTrigger(day=1, hour=10, minute=30): inactivity_check_job, half an
\* hour after the matching trigger
cron_inactivity_check ==
    /\ day = MATCHING_DAY
    /\ "monthly_matching" \in cron_fired
    /\ pc["job"] = "idle"
    /\ "inactivity_check" \notin cron_fired
    /\ i_pc = "idle"
    /\ cron_fired' = cron_fired \cup {"inactivity_check"}
    /\ i_pc' = "sweep"
    /\ UNCHANGED <<gvars, day, follow_ups, meeting_streaks, delivered, updates,
                   f_pc, f_todo, i_todo, dbvars, envvars, pc, attempt, locals, result>>

\* an admin sends /test_followup
test_followup ==
    /\ HandlerFree
    /\ updates < MaxUpdates
    /\ updates' = updates + 1
    /\ f_pc' = [f_pc EXCEPT !["test_followup"] = "round"]
    /\ UNCHANGED <<gvars, day, follow_ups, meeting_streaks, delivered,
                   cron_fired, f_todo, i_pc, i_todo, dbvars, envvars, pc, attempt,
                   locals, result>>

(* ----------------------- monthly_followup_job -------------------------- *)
\* the (match, member) iterations of the loop over the matches of a round
RECURSIVE Iterations(_)
Iterations(rows) ==
    IF rows = <<>> THEN <<>>
    ELSE [k \in 1..Len(MemberList(Head(rows))) |->
             [match_id |-> Head(rows).id, user_id |-> MemberList(Head(rows))[k]]]
         \o Iterations(Tail(rows))

\* the yes/no prompt for match mid in the chat of member u
Prompt(mid, u) == [kind |-> "followup", match_id |-> mid, user_id |-> u]

\* what follows one iteration
f_advance(c) ==
    /\ f_todo' = [f_todo EXCEPT ![c] = Tail(f_todo[c])]
    /\ f_pc' = [f_pc EXCEPT ![c] = IF Tail(f_todo[c]) = <<>> THEN "idle" ELSE "prompt"]

\* jobs.py 45-54: the current round and its matches
f_get_round(c) ==
    /\ f_pc[c] = "round"
    /\ LET r == get_current_round(matching_rounds, now)
           todo == IF r = None THEN <<>>
                   ELSE Iterations(get_matches_for_round(matches, matching_rounds[r].id))
       IN  /\ f_todo' = [f_todo EXCEPT ![c] = todo]
           /\ f_pc' = [f_pc EXCEPT ![c] = IF todo = <<>> THEN "idle" ELSE "prompt"]
    /\ UNCHANGED <<gvars, day, follow_ups, meeting_streaks, delivered, updates,
                   cron_fired, i_pc, i_todo, dbvars, envvars, pc, attempt, locals, result>>

\* NotificationService.send_followup_question: True unless the send raised
send_followup_question(r) == r \in {"message", "none"}

\* plausible slip: a failed send is not caught and ends the run
f_prompt_AbortOnFailure(c) ==
    /\ f_pc[c] = "prompt"
    /\ LET item == Head(f_todo[c]) IN
       IF get_followup(follow_ups, item.match_id, item.user_id) # None
       THEN f_advance(c) /\ delivered' = delivered /\ failures' = failures
       ELSE \E outs \in [1..SEND_MAX_RETRIES -> GatewayOutcomes] :
              LET r == send_with_retry(outs, 1, SEND_MAX_RETRIES) IN
              /\ r # "message" => failures < MaxFailures
              /\ failures' = IF r # "message" THEN failures + 1 ELSE failures
              /\ delivered' = IF r = "message"
                              THEN delivered (+) SetToBag({Prompt(item.match_id,
                                                                  item.user_id)})
                              ELSE delivered
              /\ IF send_followup_question(r)
                 THEN f_pc' = [f_pc EXCEPT ![c] = "create"] /\ f_todo' = f_todo
                 ELSE /\ f_pc' = [f_pc EXCEPT ![c] = "idle"]
                      /\ f_todo' = [f_todo EXCEPT ![c] = <<>>]
    /\ UNCHANGED <<gvars, day, follow_ups, meeting_streaks, updates,
                   cron_fired, i_pc, i_todo, dbvars, now, outbox, group_posts,
                   stopped, pc, attempt, locals, result>>

\* jobs.py 65-71 (76-82, 88-91): get_followup, then send_followup_question
f_prompt(c) ==
    /\ f_pc[c] = "prompt"
    /\ LET item == Head(f_todo[c]) IN
       IF get_followup(follow_ups, item.match_id, item.user_id) # None
       THEN f_advance(c) /\ delivered' = delivered /\ failures' = failures
       ELSE \E outs \in [1..SEND_MAX_RETRIES -> GatewayOutcomes] :
              LET r == send_with_retry(outs, 1, SEND_MAX_RETRIES) IN
              /\ r # "message" => failures < MaxFailures
              /\ failures' = IF r # "message" THEN failures + 1 ELSE failures
              /\ delivered' = IF r = "message"
                              THEN delivered (+) SetToBag({Prompt(item.match_id,
                                                                  item.user_id)})
                              ELSE delivered
              /\ IF send_followup_question(r)
                 THEN f_pc' = [f_pc EXCEPT ![c] = "create"] /\ f_todo' = f_todo
                 ELSE f_advance(c)
    /\ UNCHANGED <<gvars, day, follow_ups, meeting_streaks, updates,
                   cron_fired, i_pc, i_todo, dbvars, now, outbox, group_posts,
                   stopped, pc, attempt, locals, result>>

\* jobs.py 72 (83, 92): create_followup after the send returned True
f_create(c) ==
    /\ f_pc[c] = "create"
    /\ LET item == Head(f_todo[c]) IN
       follow_ups' = create_followup(follow_ups, item.match_id, item.user_id,
                                     Stamp(now, day))
    /\ f_advance(c)
    /\ UNCHANGED <<gvars, day, meeting_streaks, delivered, updates,
                   cron_fired, i_pc, i_todo, dbvars, envvars, pc, attempt, locals, result>>

\* followup_handler.followup_response_callback: a member presses yes or no
\* under a prompt they were sent
followup_response_callback(u, mid, response) ==
    /\ HandlerFree
    /\ updates < MaxUpdates
    /\ BagIn(Prompt(mid, u), delivered)
    /\ updates' = updates + 1
    /\ follow_ups' = record_response(follow_ups, mid, u, response)
    /\ meeting_streaks' = process_followup_response(meeting_streaks, u, response, now)
    /\ UNCHANGED <<gvars, day, delivered, cron_fired, f_pc, f_todo, i_pc, i_todo,
                   dbvars, envvars, pc, attempt, locals, result>>

\* the same handler, the button press being kept in `responses`: the match,
\* the button, and whether a FollowUp row was there to take the reply
followup_response_logged(u, mid, response) ==
    /\ HandlerFree
    /\ updates < MaxUpdates
    /\ BagIn(Prompt(mid, u), delivered)
    /\ updates' = updates + 1
    /\ follow_ups' = record_response(follow_ups, mid, u, response)
    /\ meeting_streaks' = process_followup_response(meeting_streaks, u, response, now)
    /\ responses' = [responses EXCEPT ![u] =
                        Append(@, [match_id |-> mid, response |-> response,
                                   stored |-> get_followup(follow_ups, mid, u) # None])]
    /\ UNCHANGED <<g_pc, g_roster, g_hist, g_users, g_matches, can_receive_dm,
                   send_call, retry_jobs, join_call, day, delivered, cron_fired, f_pc, f_todo,
                   i_pc, i_todo, dbvars, envvars, pc, attempt, locals, result>>

(* ----------------------- inactivity_check_job -------------------------- *)
\* what follows one iteration of either loop; `after` is where the loop leads
i_advance(after) ==
    /\ i_todo' = Tail(i_todo)
    /\ i_pc' = IF Tail(i_todo) = <<>> THEN after ELSE i_pc

\* inactivity_service.py 60: get_unanswered_followups
i_get_unanswered ==
    /\ i_pc = "sweep"
    /\ LET unanswered == get_unanswered_followups(follow_ups, Stamp(now, day))
       IN  /\ i_todo' = unanswered
           /\ i_pc' = IF unanswered = <<>> THEN "check" ELSE "sweep_item"
    /\ UNCHANGED <<gvars, day, follow_ups, meeting_streaks, delivered, updates,
                   cron_fired, f_pc, f_todo, dbvars, envvars, pc, attempt, locals, result>>

\* plausible slip: the sweep updates the streak and leaves the response NULL
i_sweep_item_NoRecord ==
    /\ i_pc = "sweep_item"
    /\ LET followup == Head(i_todo) IN
       /\ follow_ups' = follow_ups
       /\ meeting_streaks' = process_followup_response(meeting_streaks,
                                        followup.user_id, "no", now)
    /\ i_advance("check")
    /\ UNCHANGED <<gvars, day, delivered, updates, cron_fired, f_pc, f_todo,
                   dbvars, envvars, pc, attempt, locals, result>>

\* inactivity_service.py 63-71: record 'no' and update the streak
i_sweep_item ==
    /\ i_pc = "sweep_item"
    /\ LET followup == Head(i_todo) IN
       /\ follow_ups' = record_response(follow_ups, followup.match_id,
                                        followup.user_id, "no")
       /\ meeting_streaks' = process_followup_response(meeting_streaks,
                                        followup.user_id, "no", now)
    /\ i_advance("check")
    /\ UNCHANGED <<gvars, day, delivered, updates, cron_fired, f_pc, f_todo,
                   dbvars, envvars, pc, attempt, locals, result>>

\* jobs.py 122-127: an await of the body raises and the job runs its body
\* again after the delay. What the body committed stays: raised between the
\* two calls made for one FollowUp (inactivity_service.py 64-69), the 'no' is
\* recorded and the streak is not updated. One failure is drawn per
\* behaviour, so the attempt that raises is never the last of the three
i_raise ==
    /\ i_pc \in {"sweep", "sweep_item", "check", "remove"}
    /\ failures < MaxFailures
    /\ failures' = failures + 1
    /\ \E between \in BOOLEAN :
          IF between /\ i_pc = "sweep_item"
          THEN follow_ups' = record_response(follow_ups, Head(i_todo).match_id,
                                             Head(i_todo).user_id, "no")
          ELSE follow_ups' = follow_ups
    /\ i_pc' = "sweep"
    /\ i_todo' = <<>>
    /\ UNCHANGED <<gvars, day, meeting_streaks, delivered, updates, cron_fired,
                   f_pc, f_todo, dbvars, now, outbox, group_posts, stopped,
                   pc, attempt, locals, result>>

\* inactivity_service.py 29: get_inactive_users(INACTIVITY_THRESHOLD)
i_get_inactive ==
    /\ i_pc = "check"
    /\ LET inactive_user_ids == get_inactive_users(meeting_streaks, users,
                                                   INACTIVITY_THRESHOLD)
       IN  /\ i_todo' = inactive_user_ids
           /\ i_pc' = IF inactive_user_ids = <<>> THEN "idle" ELSE "remove"
    /\ UNCHANGED <<gvars, day, follow_ups, meeting_streaks, delivered, updates,
                   cron_fired, f_pc, f_todo, dbvars, envvars, pc, attempt, locals, result>>

\* NotificationService.send_removal_notification: True unless the send raised
send_removal_notification(r) == r \in {"message", "none"}

\* inactivity_service.py 34-50: unsubscribe, reset the streak, notify
i_remove ==
    /\ i_pc = "remove"
    /\ LET user_id == Head(i_todo) IN
       /\ users' = [users EXCEPT ![user_id].is_subscribed = FALSE]
       /\ meeting_streaks' = reset_streak(meeting_streaks, user_id, now)
       /\ \E outs \in [1..SEND_MAX_RETRIES -> GatewayOutcomes] :
             LET r == send_with_retry(outs, 1, SEND_MAX_RETRIES) IN
             /\ r # "message" => failures < MaxFailures
             /\ failures' = IF r # "message" THEN failures + 1 ELSE failures
             /\ delivered' = IF r = "message"
                             THEN delivered (+) SetToBag({[kind |-> "removal",
                                                           match_id |-> now,
                                                           user_id |-> user_id]})
                             ELSE delivered
    /\ i_advance("idle")
    /\ UNCHANGED <<gvars, day, follow_ups, updates, cron_fired, f_pc, f_todo,
                   matching_rounds, matches, match_history, now, outbox,
                   group_posts, stopped, pc, attempt, locals, result>>

(* ---------------- the follow-up and inactivity lifecycle -------------- *)
InitFU ==
    /\ g_pc = "off" /\ g_roster = {} /\ g_hist = {} /\ g_users = <<>> /\ g_matches = <<>>
    /\ responses = [u \in Users |-> <<>>]
    /\ can_receive_dm = [u \in Users |-> TRUE] /\ send_call = NoCall
    /\ retry_jobs = [j \in JobIds |-> IdleJob]
    /\ join_call = NoJoin
    /\ FreshBot([u \in Users |-> [is_subscribed |-> TRUE]])

NextFU ==
    \/ AdvanceClock(MaxPeriod)
    \/ cron_monthly_matching
    \/ cron_monthly_followup
    \/ cron_inactivity_check
    \/ test_followup
    \/ \E u \in Users : \E mid \in DOMAIN matches : \E response \in {"yes", "no"} :
          followup_response_callback(u, mid, response)
    \/ create_round_atomic("job")
    \/ read_subscribers("job")
    \/ generate("job")
    \/ finalize_round("job")
    \/ save_match("job")
    \/ record_history("job")
    \/ notify_member("job")
    \/ post_group_announcement("job")
    \/ report_result("job")
    \/ \E c \in FCallers : f_get_round(c)
    \/ \E c \in FCallers : f_prompt(c)
    \/ \E c \in FCallers : f_create(c)
    \/ i_get_unanswered
    \/ i_sweep_item
    \/ i_get_inactive
    \/ i_remove

SpecFU == InitFU /\ [][NextFU]_vars

(* ---- the scheduled jobs and the buttons, every press remembered ------ *)
NextAnswers ==
    \/ AdvanceClock(MaxPeriod)
    \/ cron_monthly_matching
    \/ cron_monthly_followup
    \/ cron_inactivity_check
    \/ \E u \in Users : \E mid \in DOMAIN matches : \E response \in {"yes", "no"} :
          followup_response_logged(u, mid, response)
    \/ create_round_atomic("job")
    \/ read_subscribers("job")
    \/ generate("job")
    \/ finalize_round("job")
    \/ save_match("job")
    \/ record_history("job")
    \/ notify_member("job")
    \/ post_group_announcement("job")
    \/ report_result("job")
    \/ f_get_round("followup_job")
    \/ f_prompt("followup_job")
    \/ f_create("followup_job")
    \/ i_get_unanswered
    \/ i_sweep_item
    \/ i_get_inactive
    \/ i_remove

SpecAnswers == InitFU /\ [][NextAnswers]_vars

(* ---- the follow-up job run again and again, one run at a time -------- *)
\* an admin sends /test_followup while no scheduled run is in flight, and the
\* scheduler fires while no admin run is in flight
NextRerun ==
    \/ AdvanceClock(MaxPeriod)
    \/ cron_monthly_matching
    \/ f_pc["test_followup"] = "idle" /\ cron_monthly_followup
    \/ cron_inactivity_check
    \/ f_pc["followup_job"] = "idle" /\ test_followup
    \/ \E u \in Users : \E mid \in DOMAIN matches : \E response \in {"yes", "no"} :
          followup_response_callback(u, mid, response)
    \/ create_round_atomic("job")
    \/ read_subscribers("job")
    \/ generate("job")
    \/ finalize_round("job")
    \/ save_match("job")
    \/ record_history("job")
    \/ notify_member("job")
    \/ post_group_announcement("job")
    \/ report_result("job")
    \/ \E c \in FCallers : f_get_round(c)
    \/ \E c \in FCallers : f_prompt(c)
    \/ \E c \in FCallers : f_create(c)
    \/ i_get_unanswered
    \/ i_sweep_item
    \/ i_get_inactive
    \/ i_remove

SpecRerun == InitFU /\ [][NextRerun]_vars

(* --------- the scheduled jobs alone, month after month ---------------- *)
NextLife ==
    \/ AdvanceClock(MaxMonth)
    \/ cron_monthly_matching
    \/ cron_monthly_followup
    \/ cron_inactivity_check
    \/ create_round_atomic("job")
    \/ read_subscribers("job")
    \/ generate("job")
    \/ finalize_round("job")
    \/ save_match("job")
    \/ record_history("job")
    \/ notify_member("job")
    \/ post_group_announcement("job")
    \/ report_result("job")
    \/ f_get_round("followup_job")
    \/ f_prompt("followup_job")
    \/ f_create("followup_job")
    \/ i_get_unanswered
    \/ i_sweep_item
    \/ i_get_inactive
    \/ i_remove

SpecLife == InitFU /\ [][NextLife]_vars

(* ---- the scheduled jobs, the inactivity job failing and retrying ----- *)
NextSweep ==
    \/ NextLife
    \/ i_raise

SpecSweep == InitFU /\ [][NextSweep]_vars

(* ---- the scheduled jobs, one month past the first removals ----------- *)
NextLate ==
    \/ NextLife
    \/ AdvanceClock(MaxMonth + 1)
    \/ not_enough("job")

SpecLate == InitFU /\ [][NextLate]_vars

(* --- the scheduled jobs and members who come back after a removal ----- *)
\* a member who is not subscribed presses Join, between two job runs
NextRejoin ==
    \/ NextLife
    \/ AdvanceClock(MaxMonth + 1)
    \/ not_enough("job")
    \/ \E u \in Users : AllIdle /\ ~users[u].is_subscribed /\ join_callback(u)

SpecRejoin == InitFU /\ [][NextRejoin]_vars

(* --- the scheduled jobs and members who leave and join at will -------- *)
\* the Join button and the Leave button are pressed between two job runs
NextMembers ==
    \/ NextLife
    \/ not_enough("job")
    \/ \E u \in Users : AllIdle /\ join_callback(u)
    \/ \E u \in Users : AllIdle /\ leave_callback(u)

SpecMembers == InitFU /\ [][NextMembers]_vars

(* ------- the scheduled matching job alone, rosters of up to 3 --------- *)
InitRun ==
    /\ g_pc = "off" /\ g_roster = {} /\ g_hist = {} /\ g_users = <<>> /\ g_matches = <<>>
    /\ responses = [u \in Users |-> <<>>]
    /\ can_receive_dm = [u \in Users |-> TRUE] /\ send_call = NoCall
    /\ retry_jobs = [j \in JobIds |-> IdleJob]
    /\ join_call = NoJoin
    /\ \E tbl \in [1..RunMembers -> [is_subscribed : BOOLEAN]] : FreshBot(tbl)

NextRun ==
    \/ Tick
    \/ monthly_matching_job
    \/ create_round_atomic("job")
    \/ already_done("job")
    \/ read_subscribers("job")
    \/ not_enough("job")
    \/ generate("job")
    \/ finalize_round("job")
    \/ save_match("job")
    \/ record_history("job")
    \/ notify_member("job")
    \/ post_group_announcement("job")
    \/ report_result("job")
    \/ raise_exception("job")

SpecRun == InitRun /\ [][NextRun]_vars

(* ------- the streak store driven by one response per period ----------- *)
InitStreak ==
    /\ g_pc = "off" /\ g_roster = {} /\ g_hist = {} /\ g_users = <<>> /\ g_matches = <<>>
    /\ responses = [u \in Users |-> <<>>]
    /\ can_receive_dm = [u \in Users |-> TRUE] /\ send_call = NoCall
    /\ retry_jobs = [j \in JobIds |-> IdleJob]
    /\ join_call = NoJoin
    /\ \E tbl \in [Users -> [is_subscribed : BOOLEAN]] : FreshBot(tbl)

\* the response of member u for the current period is processed: an explicit
\* 'yes' or 'no' (followup_handler.py 28) or the 'no' the sweep makes of
\* silence (inactivity_service.py 71)
StreakResponse(u, response) ==
    /\ Len(responses[u]) < now
    /\ meeting_streaks' = process_followup_response(meeting_streaks, u, response, now)
    /\ responses' = [responses EXCEPT ![u] = Append(@, response)]
    /\ UNCHANGED <<g_pc, g_roster, g_hist, g_users, g_matches, can_receive_dm,
                   send_call, retry_jobs, join_call, day, follow_ups, delivered, updates, cron_fired, f_pc, f_todo, i_pc, i_todo,
                   dbvars, envvars, pc, attempt, locals, result>>

\* the next period starts once every member's response is in
StreakNextPeriod ==
    /\ \A u \in Users : Len(responses[u]) = now
    /\ now < MaxMonth
    /\ now' = now + 1
    /\ UNCHANGED <<gvars, fuvars, dbvars, outbox, group_posts, failures, stopped,
                   pc, attempt, locals, result>>

NextStreak ==
    \/ \E u \in Users : \E response \in {"yes", "no"} : StreakResponse(u, response)
    \/ StreakNextPeriod

SpecStreak == InitStreak /\ [][NextStreak]_vars

(* ---- check_and_remove_inactive on the streaks the responses leave ------ *)
\* jobs.py 118: inactivity_check_job calls check_and_remove_inactive
check_and_remove_inactive ==
    /\ i_pc = "idle"
    /\ i_pc' = "check"
    /\ UNCHANGED <<gvars, day, follow_ups, meeting_streaks, delivered, updates,
                   cron_fired, f_pc, f_todo, i_todo, dbvars, envvars, pc, attempt,
                   locals, result>>

\* the responses of a period are processed between two runs of the check
NextInact ==
    \/ \E u \in Users : \E response \in {"yes", "no"} :
          i_pc = "idle" /\ StreakResponse(u, response)
    \/ i_pc = "idle" /\ StreakNextPeriod
    \/ check_and_remove_inactive
    \/ i_get_inactive
    \/ i_remove

SpecInact == InitStreak /\ [][NextInact]_vars

(* ------- one match or follow-up delivery on arbitrary outcomes -------- *)
\* users.can_receive_dm is written by the Forbidden handlers and read by no
\* job (only the /subscribers listing shows it), so the jobs above leave it
\* out and the column is followed here, call by call
InitSend ==
    /\ g_pc = "off" /\ g_roster = {} /\ g_hist = {} /\ g_users = <<>> /\ g_matches = <<>>
    /\ responses = [u \in Users |-> <<>>]
    /\ can_receive_dm \in [Users -> BOOLEAN]
    /\ send_call \in [kind : {"match", "followup"}, user_id : Users,
                      outs : [1..SEND_MAX_RETRIES -> GatewayOutcomes],
                      attempts : {0}, returned : {FALSE}, done : {FALSE}]
    /\ retry_jobs = [j \in JobIds |-> IdleJob]
    /\ join_call = NoJoin
    /\ FreshBot([u \in Users |-> [is_subscribed |-> TRUE]])

\* send_match_notification / send_followup_question: send_with_retry, and
\* set_can_receive_dm(user_id, False) in the Forbidden handler
CallSend ==
    /\ ~send_call.done
    /\ LET r == send_with_retry(send_call.outs, 1, SEND_MAX_RETRIES) IN
       /\ send_call' = [send_call EXCEPT
              !.attempts = SendAttempts(send_call.outs, 1, SEND_MAX_RETRIES),
              !.returned = IF send_call.kind = "match" THEN send_match_notification(r)
                           ELSE send_followup_question(r),
              !.done = TRUE]
       /\ can_receive_dm' = IF r = "forbidden"
                            THEN [can_receive_dm EXCEPT ![send_call.user_id] = FALSE]
                            ELSE can_receive_dm
    /\ UNCHANGED <<g_pc, g_roster, g_hist, g_users, g_matches, responses,
                   retry_jobs, join_call, fuvars, dbvars, envvars, pc, attempt, locals, result>>

NextSend == CallSend

SpecSend == InitSend /\ [][NextSend]_vars

\* the coroutine of a delivery is scheduled until it ends
SpecSendLive == SpecSend /\ WF_vars(NextSend)

(* ---- join_callback await by await, the jobs writing in between ------- *)
\* updates are handled one at a time (no concurrent_updates in app.py), so
\* one button handler runs at once; the scheduler's jobs share the event
\* loop and write the users table between two awaits of the handler
InitJoin ==
    /\ g_pc = "off" /\ g_roster = {} /\ g_hist = {} /\ g_users = <<>> /\ g_matches = <<>>
    /\ responses = [u \in Users |-> <<>>]
    /\ can_receive_dm = [u \in Users |-> TRUE] /\ send_call = NoCall
    /\ retry_jobs = [j \in JobIds |-> IdleJob]
    /\ join_call = NoJoin
    /\ FreshBot([u \in Users |-> [is_subscribed |-> FALSE]])

JoinStep(call) ==
    /\ join_call' = call
    /\ UNCHANGED <<g_pc, g_roster, g_hist, g_users, g_matches, responses,
                   send_call, retry_jobs, fuvars, matching_rounds, matches,
                   match_history, envvars, pc, attempt, locals, result>>

NoJoinRunning == join_call.pc \in {"idle", "done"}

\* create_or_update_user, then the branch on db_user.is_subscribed
j_read(u) ==
    /\ NoJoinRunning
    /\ JoinStep([pc |-> IF users[u].is_subscribed THEN "unsubscribe" ELSE "welcome",
                 user_id |-> u, was_subscribed |-> users[u].is_subscribed,
                 welcome |-> "none", outcome |-> "none"])
    /\ UNCHANGED <<users, can_receive_dm>>

\* unsubscribe_user, the message is refreshed, return
j_unsubscribe ==
    /\ join_call.pc = "unsubscribe"
    /\ users' = [users EXCEPT ![join_call.user_id].is_subscribed = FALSE]
    /\ JoinStep([join_call EXCEPT !.pc = "done", !.outcome = "left"])
    /\ UNCHANGED can_receive_dm

\* plausible slip: the Forbidden branch alerts the member and falls through
j_welcome_IgnoreForbidden ==
    /\ join_call.pc = "welcome"
    /\ \E out \in {"ok", "forbidden", "error"} :
          JoinStep(IF out \in {"ok", "forbidden"}
                   THEN [join_call EXCEPT !.pc = "subscribe", !.welcome = out]
                   ELSE [join_call EXCEPT !.pc = "done", !.welcome = out,
                                          !.outcome = "raised"])
    /\ UNCHANGED <<users, can_receive_dm>>

\* the welcome DM: sent, rejected for good (Forbidden: alert and return), or
\* another error, which no except clause of the handler catches
j_welcome ==
    /\ join_call.pc = "welcome"
    /\ \E out \in {"ok", "forbidden", "error"} :
          JoinStep(CASE out = "ok" ->
                          [join_call EXCEPT !.pc = "subscribe", !.welcome = out]
                     [] out = "forbidden" ->
                          [join_call EXCEPT !.pc = "done", !.welcome = out,
                                            !.outcome = "alert"]
                     [] OTHER ->
                          [join_call EXCEPT !.pc = "done", !.welcome = out,
                                            !.outcome = "raised"])
    /\ UNCHANGED <<users, can_receive_dm>>

\* subscribe_user
j_subscribe ==
    /\ join_call.pc = "subscribe"
    /\ users' = [users EXCEPT ![join_call.user_id].is_subscribed = TRUE]
    /\ JoinStep([join_call EXCEPT !.pc = "set_flag"])
    /\ UNCHANGED can_receive_dm

\* set_can_receive_dm(user.id, True), the message is refreshed, the answer
j_set_flag ==
    /\ join_call.pc = "set_flag"
    /\ can_receive_dm' = [can_receive_dm EXCEPT ![join_call.user_id] = TRUE]
    /\ JoinStep([join_call EXCEPT !.pc = "done", !.outcome = "joined"])
    /\ UNCHANGED users

\* a notification of a job to a member of its roster is rejected for good:
\* set_can_receive_dm(user_id, False) (notification_service.py 136, 173)
forbidden_handler(u) ==
    /\ can_receive_dm[u]
    /\ can_receive_dm' = [can_receive_dm EXCEPT ![u] = FALSE]
    /\ JoinStep(join_call)
    /\ UNCHANGED users

\* the inactivity job unsubscribes a member
removal(u) ==
    /\ users[u].is_subscribed
    /\ users' = [users EXCEPT ![u].is_subscribed = FALSE]
    /\ JoinStep(join_call)
    /\ UNCHANGED can_receive_dm

NextJoin ==
    \/ \E u \in Users : j_read(u)
    \/ j_unsubscribe
    \/ j_welcome
    \/ j_subscribe
    \/ j_set_flag
    \/ \E u \in Users : NoJoinRunning /\ leave_callback(u)
    \/ \E u \in Users : forbidden_handler(u)
    \/ \E u \in Users : removal(u)

SpecJoin == InitJoin /\ [][NextJoin]_vars

(* ---- the retry loop of the three jobs, the body raising at will ------ *)
\* the three jobs wrap their body in the same loop (jobs.py 24-36, 42-105,
\* 111-129); every repository call of a body commits at once, so a body
\* that raises has persisted what it wrote before
InitRetry ==
    /\ g_pc = "off" /\ g_roster = {} /\ g_hist = {} /\ g_users = <<>> /\ g_matches = <<>>
    /\ responses = [u \in Users |-> <<>>]
    /\ can_receive_dm = [u \in Users |-> TRUE] /\ send_call = NoCall
    /\ retry_jobs = [j \in JobIds |-> IdleJob]
    /\ join_call = NoJoin
    /\ FreshBot([u \in Users |-> [is_subscribed |-> TRUE]])

RetryStep(j, row) ==
    /\ retry_jobs' = [retry_jobs EXCEPT ![j] = row]
    /\ UNCHANGED <<g_pc, g_roster, g_hist, g_users, g_matches, responses,
                   can_receive_dm, send_call, join_call, fuvars, dbvars, envvars, pc,
                   attempt, locals, result>>

\* the scheduler fires job j: `for attempt in range(MAX_RETRIES)` starts
job_trigger(j) ==
    /\ retry_jobs[j].pc = "idle"
    /\ MAX_RETRIES > 0
    /\ RetryStep(j, [retry_jobs[j] EXCEPT !.pc = "body", !.attempt = 0])

\* the body commits one more write
job_body_commit(j) ==
    /\ retry_jobs[j].pc = "body"
    /\ retry_jobs[j].commits < MaxCommits
    /\ RetryStep(j, [retry_jobs[j] EXCEPT !.commits = @ + 1])

\* the body does not raise: `return  # Success`
job_body_return(j) ==
    /\ retry_jobs[j].pc = "body"
    /\ RetryStep(j, [retry_jobs[j] EXCEPT !.pc = "done", !.runs = @ + 1])

\* plausible slip: the test is `attempt < MAX_RETRIES`, one sleep too many
job_except_OneMore(j) ==
    /\ retry_jobs[j].pc = "body"
    /\ IF retry_jobs[j].attempt < MAX_RETRIES
       THEN RetryStep(j, [retry_jobs[j] EXCEPT
               !.pc = "sleep", !.runs = @ + 1,
               !.slept = Append(@, RETRY_DELAYS[retry_jobs[j].attempt + 1])])
       ELSE RetryStep(j, [retry_jobs[j] EXCEPT
               !.pc = "done", !.runs = @ + 1, !.fatal = TRUE])

\* the body raises: `except Exception`, sleep RETRY_DELAYS[attempt] or log
\* the critical message and fall out of the loop
job_except(j) ==
    /\ retry_jobs[j].pc = "body"
    /\ IF retry_jobs[j].attempt < MAX_RETRIES - 1
       THEN RetryStep(j, [retry_jobs[j] EXCEPT
               !.pc = "sleep", !.runs = @ + 1,
               !.slept = Append(@, RETRY_DELAYS[retry_jobs[j].attempt + 1])])
       ELSE RetryStep(j, [retry_jobs[j] EXCEPT
               !.pc = "done", !.runs = @ + 1, !.fatal = TRUE])

\* asyncio.sleep(delay) is over: the next iteration of the loop, if any
job_next_attempt(j) ==
    /\ retry_jobs[j].pc = "sleep"
    /\ RetryStep(j, [retry_jobs[j] EXCEPT
          !.attempt = @ + 1,
          !.pc = IF retry_jobs[j].attempt + 1 < MAX_RETRIES THEN "body" ELSE "done"])

NextRetry ==
    \/ \E j \in JobIds : job_trigger(j)
    \/ \E j \in JobIds : job_body_commit(j)
    \/ \E j \in JobIds : job_body_return(j)
    \/ \E j \in JobIds : job_except(j)
    \/ \E j \in JobIds : job_next_attempt(j)

SpecRetry == InitRetry /\ [][NextRetry]_vars

(* ------------------------------ claims -------------------------------- *)
\* number of groups of ms that contain member u
Occurrences(ms, u) ==
    Cardinality({<<i, j>> \in (DOMAIN ms) \X (1..3) :
                    j \in DOMAIN ms[i] /\ ms[i][j] = u})

IsPartitionOf(ms, roster) ==
    /\ \A u \in roster : Occurrences(ms, u) = 1
    /\ \A i \in DOMAIN ms : GroupSet(ms[i]) \subseteq roster

\* C1: for every roster of size >= 2, every history set and every shuffle
\* order, each input member appears in exactly one returned group and no
\* non-input member appears.
C1_Partition ==
    g_pc = "output" => IsPartitionOf(g_matches, g_roster)

C1_Witness ==
    /\ g_pc = "output"
    /\ g_roster = {1, 2, 3, 4}
    /\ g_hist = {}
    /\ Len(g_matches) = 2

\* C2: every returned group has size 2 or 3, at most one group has size 3,
\* a group of 3 occurs only for an odd roster, and an odd roster yields
\* exactly one.
C2_GroupSizes ==
    g_pc = "output" =>
        LET n == Cardinality(g_roster)
            threes == {i \in DOMAIN g_matches : Len(g_matches[i]) = 3}
        IN  /\ \A i \in DOMAIN g_matches : Len(g_matches[i]) \in {2, 3}
            /\ Cardinality(threes) <= 1
            /\ (n % 2 = 0 => threes = {})
            /\ (n % 2 = 1 => Cardinality(threes) = 1)

C2_Witness ==
    /\ g_pc = "output"
    /\ g_roster = {1, 2, 3}
    /\ g_hist = {}
    /\ Len(g_matches) = 1
    /\ Len(g_matches[1]) = 3

\* C3: when history holds every unordered pair of the roster, the engine
\* still returns a full partition into groups of 2 or 3; nobody is dropped.
C3_ExhaustedHistory ==
    (g_pc = "output" /\ OrderedPairs(g_roster) \subseteq g_hist) =>
        /\ IsPartitionOf(g_matches, g_roster)
        /\ \A i \in DOMAIN g_matches : Len(g_matches[i]) \in {2, 3}

C3_Witness ==
    /\ g_pc = "output"
    /\ g_roster = {1, 2}
    /\ <<1, 2>> \in g_hist
    /\ Len(g_matches) = 1
    /\ GroupSet(g_matches[1]) = {1, 2}

\* ids of the callers that hold the round with this id as their round_obj
Owners(rid) == {c \in Callers : round_obj[c] = rid}

\* the rows of matches that belong to a round
GroupsOf(rid) == {i \in DOMAIN matches : matches[i].round_id = rid}

MembersOf(row) == {row.user1_id, row.user2_id, row.user3_id} \ {None}

\* the match notifications sent for the groups of a round
NotifsOf(rid) ==
    {i \in DOMAIN outbox :
        /\ outbox[i].match_id \in DOMAIN matches
        /\ matches[outbox[i].match_id].round_id = rid}

GroupCount(rid, u) == Cardinality({i \in GroupsOf(rid) : u \in MembersOf(matches[i])})
NotifCount(rid, u) == Cardinality({i \in NotifsOf(rid) : outbox[i].chat_id = u})

RoundIds == {matching_rounds[i].id : i \in DOMAIN matching_rounds}

\* C4: in every reachable state there is at most one Round record per
\* period key, whatever the interleaving of the callers.
C4_OneRoundPerPeriod ==
    \A i, j \in DOMAIN matching_rounds :
        matching_rounds[i].month_year = matching_rounds[j].month_year => i = j

C4_Witness ==
    /\ Len(matching_rounds) = 2
    /\ \E c \in Callers : pc[c] = "existing"

\* C5 (state part): at most one caller holds the Round of a period, a caller
\* that found the Round existing holds none, and 'already_done' carries
\* dms_sent = 0.
C5_SingleOwner ==
    /\ \A c1, c2 \in Callers :
          (round_obj[c1] # None /\ round_obj[c1] = round_obj[c2]) => c1 = c2
    /\ \A c \in Callers :
          /\ pc[c] = "existing" => round_obj[c] = None
          /\ pc[c] \in {"subs", "stats0", "gen", "stats", "create_match",
                        "add_to_history", "notify", "announce"}
                => /\ round_obj[c] \in RoundIds
                   /\ matching_rounds[RoundIndex(matching_rounds, month_year[c])].id
                        = round_obj[c]
          /\ (pc[c] = "returned" /\ result[c].status = "already_done")
                => result[c].dms_sent = 0

\* C5 (step part): the caller that finds no Round obtains it; a caller that
\* finds one returns (when its read of the Round does not raise)
\* 'already_done' with the stats stored at that moment and changes nothing; groups, history and notifications are only ever added by
\* the caller that holds the Round.
C5_Steps ==
    /\ \A c \in Callers :
          /\ (pc[c] = "create" /\ pc'[c] \in {"existing", "subs"})
                => IF RoundIndex(matching_rounds, now) = None
                   THEN pc'[c] = "subs" /\ round_obj'[c] # None
                   ELSE pc'[c] = "existing" /\ round_obj'[c] = None
          /\ (pc[c] = "existing" /\ pc'[c] = "returned" /\ failures' = failures)
                => /\ result'[c].status = "already_done"
                   /\ result'[c].dms_sent = 0
                   /\ LET row == matching_rounds[RoundIndex(matching_rounds, month_year[c])]
                      IN  /\ result'[c].total_subscribers = row.total_subscribers
                          /\ result'[c].total_pairs = row.total_pairs
                   /\ UNCHANGED <<matching_rounds, matches, match_history,
                                  outbox, group_posts>>
    /\ (<<matches, match_history, outbox, group_posts>>'
            # <<matches, match_history, outbox, group_posts>>)
          => \E c \in Callers :
                /\ round_obj[c] # None
                /\ pc[c] \in {"create_match", "add_to_history", "notify", "announce"}
                /\ pc'[c] # "existing"

\* C5: for any interleaving of execute_monthly_matching calls for one period
\* exactly one caller obtains the new Round and runs the engine; every other
\* caller returns 'already_done' with dms_sent = 0 and the stored stats, and
\* creates no Group, no HistoricalPair and sends no notification.
C5_OneCallerRuns == []C5_SingleOwner /\ [][C5_Steps]_vars

C5_Witness ==
    \E c1, c2 \in Callers :
        /\ c1 # c2
        /\ round_obj[c1] # None
        /\ pc[c1] \in {"create_match", "add_to_history", "notify"}
        /\ pc[c2] = "returned"
        /\ result[c2].status = "already_done"
        /\ result[c2].month_year = month_year[c1]

\* C6: a create_round_atomic call for a period whose Round exists reports
\* already-exists (None) and leaves the stored rounds, in particular that
\* Round's total_subscribers and total_pairs, unchanged, placeholder or not.
C6_SecondBeginRound ==
    [][\A c \in Callers :
          (/\ pc[c] = "create"
           /\ pc'[c] \in {"existing", "subs"}
           /\ RoundIndex(matching_rounds, now) # None)
          => /\ pc'[c] = "existing"
             /\ round_obj'[c] = None
             /\ matching_rounds' = matching_rounds]_vars

C6_Witness ==
    \E c \in Callers :
        /\ pc[c] = "existing"
        /\ matching_rounds[RoundIndex(matching_rounds, month_year[c])].total_pairs > 0

\* the Round of the period for which the job's last call returned
JobRound == matching_rounds[RoundIndex(matching_rounds, result["job"].month_year)]

\* C7 as claimed: once the job has finished for a period, every member of
\* the roster read for it (total_subscribers members, when the run got as
\* far as recording them) is in exactly one Group of the period's Round and
\* has had exactly one notification attempt.
C7_ExactlyOnce ==
    (/\ pc["job"] = "returned"
     /\ result["job"].status \in {"already_done", "success"}
     /\ JobRound.total_subscribers >= 2)
    => Cardinality({u \in Users : /\ GroupCount(JobRound.id, u) = 1
                                  /\ NotifCount(JobRound.id, u) = 1})
          = JobRound.total_subscribers

\* C7 as amended: matching is at-most-once per period. No member is ever in
\* two Groups of one Round or notified twice for it, also across retries and
\* restarts; and the run that created the Round and reached its end has put
\* every member of the roster it read in exactly one Group with exactly one
\* notification attempt.
C7_AtMostOnce ==
    /\ \A rid \in RoundIds : \A u \in Users :
          GroupCount(rid, u) <= 1 /\ NotifCount(rid, u) <= 1
    /\ \A i \in DOMAIN matches : matches[i].round_id \in RoundIds
    /\ \A c \in Callers :
          pc[c] = "announce" =>
             \A u \in Users :
                IF u \in GroupSet(subscribers[c])
                THEN GroupCount(round_obj[c], u) = 1 /\ NotifCount(round_obj[c], u) = 1
                ELSE GroupCount(round_obj[c], u) = 0 /\ NotifCount(round_obj[c], u) = 0

C7_Witness ==
    /\ pc["job"] = "returned"
    /\ attempt >= 1
    /\ result["job"].status = "already_done"
    /\ JobRound.total_subscribers = 2
    /\ GroupsOf(JobRound.id) = {}

RoundRow(rid) == matching_rounds[CHOOSE i \in DOMAIN matching_rounds : matching_rounds[i].id = rid]

\* C8 as claimed: a Round whose creating call stopped after begin_round and
\* before its notifications were complete has 0 recorded pairs.
C8_StuckAtZero ==
    \A rid \in stopped : rid \in RoundIds => RoundRow(rid).total_pairs = 0

\* a round nobody holds any more: its creating call has stopped or returned
Orphaned(rid) == Owners(rid) = {}

\* C8 as amended: once the call that created a Round is gone, no later
\* trigger changes the Round's stats, creates a Group for it or notifies a
\* member for it; a Round stopped before update_round_stats ran therefore
\* stays at 0 recorded pairs (and has no Group), one stopped later keeps the
\* pair count it had already recorded.
C8_NoRecovery ==
    [][\A i \in DOMAIN matching_rounds :
          LET rid == matching_rounds[i].id IN
          Orphaned(rid) =>
             /\ i \in DOMAIN matching_rounds'
             /\ matching_rounds'[i] = matching_rounds[i]
             /\ GroupsOf(rid)' = GroupsOf(rid)
             /\ NotifsOf(rid)' = NotifsOf(rid)
             /\ (rid \in stopped /\ matching_rounds[i].total_subscribers = 0)
                   => (matching_rounds'[i].total_pairs = 0 /\ GroupsOf(rid)' = {})]_vars

C8_Witness ==
    \E c \in Callers :
        /\ pc[c] = "returned"
        /\ result[c].status = "already_done"
        /\ result[c].total_pairs = 0
        /\ \E i \in DOMAIN matching_rounds :
              /\ matching_rounds[i].month_year = result[c].month_year
              /\ matching_rounds[i].id \in stopped
              /\ users[1].is_subscribed /\ users[2].is_subscribed

\* C9: a Round never goes back to absent, it is created as a placeholder,
\* and its stats are written at most once: only by the caller that created
\* it, at its single update_round_stats call, before which the Round is
\* still (0, 0).
C9_Steps ==
    /\ \A i \in DOMAIN matching_rounds :
          /\ i \in DOMAIN matching_rounds'
          /\ matching_rounds'[i].id = matching_rounds[i].id
          /\ matching_rounds'[i].month_year = matching_rounds[i].month_year
          /\ matching_rounds'[i] # matching_rounds[i]
                => \E c \in Callers :
                      /\ round_obj[c] = matching_rounds[i].id
                      /\ pc[c] \in {"stats0", "stats"}
                      /\ pc'[c] \notin {"subs", "gen", "stats0", "stats"}
                      /\ matching_rounds[i].total_subscribers = 0
                      /\ matching_rounds[i].total_pairs = 0
    /\ \A i \in DOMAIN matching_rounds' :
          i \notin DOMAIN matching_rounds
             => /\ matching_rounds'[i].total_subscribers = 0
                /\ matching_rounds'[i].total_pairs = 0

C9_RoundLifecycle == [][C9_Steps]_vars

C9_Witness ==
    /\ Len(matching_rounds) = 2
    /\ matching_rounds[1].total_pairs = 1
    /\ matching_rounds[2].total_subscribers = 1
    /\ \E c \in Callers : pc[c] = "existing" /\ month_year[c] = 2

\* number of history rows stored for the unordered pair {a, b}
HistoryRows(a, b) ==
    Cardinality({i \in DOMAIN match_history :
                    /\ match_history[i].user_id_1 = SortedPair(a, b)[1]
                    /\ match_history[i].user_id_2 = SortedPair(a, b)[2]})

\* C10: after any sequence of add_to_history calls the history store holds
\* at most one record per unordered pair, and have_been_matched is symmetric.
C10_HistoryUnique ==
    \A a, b \in Users :
        /\ HistoryRows(a, b) <= 1
        /\ have_been_matched(match_history, a, b) = have_been_matched(match_history, b, a)

\* the history rows written for round rid hold the unordered pair {a, b}
RecordedIn(rid, a, b) ==
    \E i \in DOMAIN match_history :
        /\ match_history[i].round_id = rid
        /\ <<match_history[i].user_id_1, match_history[i].user_id_2>> = SortedPair(a, b)

\* C11: once execute_monthly_matching has returned 'success', every
\* unordered pair of members of every Group persisted for the round is in the
\* history store (recorded for that round): one pair for a group of 2, all
\* three pairs for a group of 3.
C11_PairsRecorded ==
    \A c \in Callers :
        (pc[c] = "returned" /\ result[c].status = "success")
        => LET rid == matching_rounds[RoundIndex(matching_rounds, result[c].month_year)].id
           IN  \A i \in GroupsOf(rid) :
                  \A a, b \in MembersOf(matches[i]) :
                     a # b => /\ have_been_matched(match_history, a, b)
                              /\ RecordedIn(rid, a, b)

C11_Witness ==
    /\ pc["job"] = "returned"
    /\ result["job"].status = "success"
    /\ result["job"].month_year = 2
    /\ \E i \in DOMAIN matches :
          /\ matches[i].round_id = 2
          /\ matches[i].user3_id # None

\* rows of follow_ups with key (mid, u)
FollowUpRows(mid, u) ==
    {i \in DOMAIN follow_ups : follow_ups[i].match_id = mid /\ follow_ups[i].user_id = u}

\* C12 (state part): at most one FollowUp row per (match, member).
C12_UniqueKey ==
    \A i, j \in DOMAIN follow_ups :
        (/\ follow_ups[i].match_id = follow_ups[j].match_id
         /\ follow_ups[i].user_id = follow_ups[j].user_id) => i = j

\* C12 (step part): a create_followup for a key that has a row adds no row
\* and changes nothing but that row's question_sent_at.
C12_Steps ==
    \A c \in FCallers :
        (/\ f_pc[c] = "create" /\ f_pc'[c] # "create"
         /\ FollowUpRows(Head(f_todo[c]).match_id, Head(f_todo[c]).user_id) # {})
        => /\ Len(follow_ups') = Len(follow_ups)
           /\ \A i \in DOMAIN follow_ups :
                 /\ follow_ups'[i].response = follow_ups[i].response
                 /\ follow_ups'[i].id = follow_ups[i].id
                 /\ follow_ups'[i].match_id = follow_ups[i].match_id
                 /\ follow_ups'[i].user_id = follow_ups[i].user_id
                 /\ i \notin FollowUpRows(Head(f_todo[c]).match_id,
                                          Head(f_todo[c]).user_id)
                       => follow_ups'[i] = follow_ups[i]

\* C12: in every reachable state there is at most one FollowUp record per
\* (group, member); a second create_followup for the same key updates the
\* existing record (question-sent time only, response kept) and never adds
\* a second row.
C12_OneFollowUpPerKey == []C12_UniqueKey /\ [][C12_Steps]_vars

\* both runs prompted the same member, the member answered the first
\* record, and the second create_followup has been made
C12_Witness ==
    /\ \A c \in FCallers : f_pc[c] = "idle"
    /\ \E i \in DOMAIN follow_ups :
          /\ CopiesIn(Prompt(follow_ups[i].match_id, follow_ups[i].user_id), delivered) = 2
          /\ follow_ups[i].response = "yes"

\* C13: a FollowUp record for (group, member) exists only if some send
\* attempt for that member's prompt was accepted by the gateway, whatever
\* the sequence of gateway outcomes was.
C13_CreatedAfterDelivery ==
    \A i \in DOMAIN follow_ups :
        BagIn(Prompt(follow_ups[i].match_id, follow_ups[i].user_id), delivered)

\* C14: record_response(group, member, r) is an idempotent upsert: after
\* the call made by followup_response_callback a FollowUp for (group, member)
\* exists and carries r, whether or not a row existed before, and a second
\* call with the same r changes nothing.
C14_RecordResponseUpserts ==
    [][\A u \in Users : \A mid \in DOMAIN matches : \A r \in {"yes", "no"} :
          followup_response_callback(u, mid, r)
          => /\ \E i \in DOMAIN follow_ups' :
                   /\ follow_ups'[i].match_id = mid
                   /\ follow_ups'[i].user_id = u
                   /\ follow_ups'[i].response = r
             /\ record_response(follow_ups', mid, u, r) = follow_ups']_vars

\* the periods for which member u was asked: u has a FollowUp row for a match
\* of the period's round, or was sent its prompt
PeriodsAsked(u) ==
    {matches[i].round_id : i \in {j \in DOMAIN matches :
        \/ FollowUpRows(matches[j].id, u) # {}
        \/ BagIn(Prompt(matches[j].id, u), delivered)}}

\* C15: the streak update is scoped to the period: however often a 'no' of
\* one period is processed for a member (repeated callback, or a sweep
\* followed by a late explicit 'no'), the member's consecutive-miss counter
\* rises by at most 1 in that period, so it never exceeds the number of
\* periods the member was asked about.
C15_OneMissPerPeriod ==
    \A u \in Users : Misses(meeting_streaks, u) <= Cardinality(PeriodsAsked(u))

\* the number of 'no' at the end of a response sequence
RECURSIVE TrailingNo(_)
TrailingNo(rs) ==
    IF rs = <<>> \/ rs[Len(rs)] # "no" THEN 0
    ELSE 1 + TrailingNo(SubSeq(rs, 1, Len(rs) - 1))

\* members returned by get_inactive_users at the removal threshold
InactiveMembers ==
    LET l == get_inactive_users(meeting_streaks, users, INACTIVITY_THRESHOLD)
    IN  {l[k] : k \in DOMAIN l}

\* C16: with one response per period, a subscribed member's counter is the
\* number of 'no' since the last 'yes' (a 'yes' sets it to 0); the member is
\* in inactive_members(3) when the last three periods' responses are 'no',
\* and is never in it with fewer than three 'no' since the last 'yes'.
C16_ThreeConsecutiveNo ==
    \A u \in Users :
        users[u].is_subscribed
        => /\ Misses(meeting_streaks, u) = TrailingNo(responses[u])
           /\ TrailingNo(responses[u]) >= 3 => u \in InactiveMembers
           /\ TrailingNo(responses[u]) < 3 => u \notin InactiveMembers

\* a 'yes' followed by three 'no' makes a subscribed member inactive while
\* another member, whose third 'no' was preceded by a 'yes', is not
C16_Witness ==
    \E u, v \in Users :
        /\ users[u].is_subscribed /\ users[v].is_subscribed
        /\ responses[u] = <<"yes", "no", "no", "no">>
        /\ responses[v] = <<"no", "no", "yes", "no">>
        /\ u \in InactiveMembers
        /\ v \notin InactiveMembers

\* ids of the FollowUps that have no response and were sent at least the
\* grace period ago
DueFollowUps ==
    {follow_ups[i].id : i \in {j \in DOMAIN follow_ups :
        /\ follow_ups[j].response = Null
        /\ Stamp(now, day) - follow_ups[j].question_sent_at >= GRACE_DAYS}}

\* C17 (steps): what the sweep reads, and what it writes for one item
C17_Steps ==
    /\ (i_pc = "sweep" /\ i_pc' # "sweep")
       => {i_todo'[k].id : k \in DOMAIN i_todo'} = DueFollowUps
    /\ (i_pc = "sweep_item" /\ i_todo' # i_todo)
       => LET followup == Head(i_todo) IN
          /\ followup.response = Null
          /\ Stamp(now, day) - followup.question_sent_at >= GRACE_DAYS
          /\ Len(follow_ups') = Len(follow_ups)
          /\ \A i \in DOMAIN follow_ups :
                follow_ups'[i] = IF follow_ups[i].id = followup.id
                                 THEN [follow_ups[i] EXCEPT !.response = "no"]
                                 ELSE follow_ups[i]
          /\ Misses(meeting_streaks', followup.user_id)
                = Misses(meeting_streaks, followup.user_id) + 1
          /\ meeting_streaks'
                = process_followup_response(meeting_streaks, followup.user_id, "no", now)
          /\ \A u \in Users \ {followup.user_id} :
                Misses(meeting_streaks', u) = Misses(meeting_streaks, u)

\* C17: process_unanswered_followups sets response 'no' on exactly the
\* FollowUps it read as unanswered and older than the grace period, raises
\* the member's miss counter by one per such FollowUp through
\* process_followup_response, as an explicit 'no' does, and leaves every
\* other FollowUp (answered, or younger than the grace period) unchanged.
C17_SweepExactlyDue == [][C17_Steps]_vars

\* the sweep has just finished: it turned an old unanswered FollowUp into a
\* 'no' and left an answered one and a young unanswered one as they were
C17_Witness ==
    /\ i_pc = "check"
    /\ \E i, j, k \in DOMAIN follow_ups :
          /\ follow_ups[i].response = "no"
          /\ Misses(meeting_streaks, follow_ups[i].user_id) = 1
          /\ follow_ups[j].response = "yes"
          /\ follow_ups[k].response = Null
          /\ Stamp(now, day) - follow_ups[k].question_sent_at < GRACE_DAYS

\* members waiting in the removal loop of check_and_remove_inactive
ToRemove == IF i_pc = "remove" THEN {i_todo[k] : k \in DOMAIN i_todo} ELSE {}

\* C18 (states): while the job computes and removes the inactive members no
\* FollowUp is left for the sweep, every subscribed member at the threshold
\* is in the removal loop, and when the run is over none is left.
C18_SweepDone ==
    /\ i_pc \in {"check", "remove"} => DueFollowUps = {}
    /\ i_pc \in {"remove", "idle"}
       => \A u \in Users :
             (users[u].is_subscribed
              /\ Misses(meeting_streaks, u) >= INACTIVITY_THRESHOLD) => u \in ToRemove

\* C18 (steps): a member is unsubscribed only by the removal loop, after the
\* sweep, and the inactive members are computed only after the sweep.
C18_Steps ==
    /\ (\E u \in Users : users[u].is_subscribed /\ ~users'[u].is_subscribed)
       => i_pc = "remove" /\ DueFollowUps = {}
    /\ (i_pc = "check" /\ i_pc' # "check") => DueFollowUps = {}

\* C18: in every run of the inactivity job the sweep of unanswered FollowUps
\* completes before the inactive members are computed and removal happens
\* only after that, so a member whose third consecutive miss is a silence
\* swept in this run is removed in this same run.
C18_SweepBeforeRemoval == []C18_SweepDone /\ [][C18_Steps]_vars

\* the run of month 4 is over: a member silent for three months, whose
\* third FollowUp was turned into 'no' by this run's sweep, is unsubscribed
C18_Witness ==
    /\ now = 4 /\ i_pc = "idle" /\ "inactivity_check" \in cron_fired
    /\ \E u \in Users :
          /\ ~users[u].is_subscribed
          /\ Cardinality({i \in DOMAIN follow_ups :
                /\ follow_ups[i].user_id = u
                /\ follow_ups[i].response = "no"}) = 3

\* members returned by get_inactive_users at a threshold
Returned(threshold) ==
    LET l == get_inactive_users(meeting_streaks, users, threshold)
    IN  {l[k] : k \in DOMAIN l}

\* C19 (states): for every threshold the members returned are exactly the
\* subscribed members with a streak record whose counter is >= threshold.
C19_ExactlyInactive ==
    \A threshold \in 0..(MaxMonth + 1) : \A u \in Users :
        /\ u \in Returned(threshold)
           <=> /\ users[u].is_subscribed
               /\ u \in DOMAIN meeting_streaks
               /\ meeting_streaks[u].consecutive_misses >= threshold
        /\ ~users[u].is_subscribed => u \notin Returned(threshold)
        /\ u \notin DOMAIN meeting_streaks => u \notin Returned(threshold)

\* C19 (steps): the list check_and_remove_inactive gets is that set for the
\* threshold 3, each member once.
C19_Steps ==
    (i_pc = "check" /\ i_pc' # "check")
    => /\ {i_todo'[k] : k \in DOMAIN i_todo'}
            = {u \in Users : /\ users[u].is_subscribed
                             /\ Misses(meeting_streaks, u) >= INACTIVITY_THRESHOLD}
       /\ \A j, k \in DOMAIN i_todo' : i_todo'[j] = i_todo'[k] => j = k

\* C19: inactive_members(threshold) returns exactly the members that are
\* currently subscribed and whose consecutive-miss counter is >= threshold;
\* unsubscribed members and members without a streak record are never
\* returned.
C19_InactiveMembers == []C19_ExactlyInactive /\ [][C19_Steps]_vars

\* the check got a list that holds a subscribed member at the threshold and
\* leaves out an unsubscribed member whose counter is as high
C19_Witness ==
    /\ i_pc = "remove"
    /\ \E u, v \in Users :
          /\ i_todo = <<u>>
          /\ users[u].is_subscribed
          /\ ~users[v].is_subscribed
          /\ Misses(meeting_streaks, v) >= INACTIVITY_THRESHOLD

\* C20 (steps): the removal of a member, the end of the removal loop, and a
\* resubscribe of a member the check had removed (every member starts
\* subscribed and nobody leaves, so whoever is not subscribed was removed)
C20_Steps ==
    /\ (i_pc = "remove" /\ i_todo' # i_todo)
       => /\ ~users'[Head(i_todo)].is_subscribed
          /\ Misses(meeting_streaks', Head(i_todo)) = 0
    /\ (i_pc # "idle" /\ i_pc' = "idle")
       => \A u \in Users :
             users'[u].is_subscribed
             => Misses(meeting_streaks', u) < INACTIVITY_THRESHOLD
    /\ \A u \in Users :
          (~users[u].is_subscribed /\ users'[u].is_subscribed)
          => Misses(meeting_streaks', u) = 0

\* C20: after check_and_remove_inactive every member it found inactive is
\* unsubscribed with consecutive-miss counter 0, whether or not the removal
\* notification was delivered; no subscribed member is left at the
\* threshold, and a later resubscribe of a removed member starts from 0.
C20_RemovedStartClean == [][C20_Steps]_vars

\* the history rows written for a round
HistoryOf(rid) == {i \in DOMAIN match_history : match_history[i].round_id = rid}

\* number of subscribed members in the users table
SubscriberCount == Cardinality({u \in DOMAIN users : users[u].is_subscribed})

\* C21 (states): a call that returned 'not_enough' left its Round with 0
\* pairs and the subscriber count it reports (below 2), and the Round has
\* no Group, no HistoricalPair and no notification.
C21_NothingCreated ==
    \A c \in Callers :
        (pc[c] = "returned" /\ result[c].status = "not_enough")
        => LET row == matching_rounds[RoundIndex(matching_rounds, result[c].month_year)]
           IN  /\ result[c].total_subscribers < 2
               /\ result[c].total_pairs = 0 /\ result[c].dms_sent = 0
               /\ row.total_pairs = 0
               /\ row.total_subscribers = result[c].total_subscribers
               /\ GroupsOf(row.id) = {} /\ HistoryOf(row.id) = {} /\ NotifsOf(row.id) = {}

\* C21 (steps): with fewer than 2 subscribers read, the call goes to the
\* zero-pairs branch, not to the engine; that branch stores (count, 0),
\* returns 'not_enough' and writes nothing else; a caller that then finds
\* this Round returns 'already_done'.
C21_Steps ==
    \A c \in Callers :
        /\ (pc[c] = "subs" /\ pc'[c] \in {"stats0", "gen"})
           => /\ Len(subscribers'[c]) = SubscriberCount
              /\ pc'[c] = "stats0" <=> SubscriberCount < 2
        /\ pc'[c] = "gen" => pc[c] \in {"subs", "gen"}
        /\ (pc[c] = "stats0" /\ pc'[c] = "returned" /\ failures' = failures)
           => /\ result'[c].status = "not_enough"
              /\ result'[c].total_subscribers = Len(subscribers[c])
              /\ matching_rounds'
                    = [i \in DOMAIN matching_rounds |->
                         IF matching_rounds[i].id = round_obj[c]
                         THEN [matching_rounds[i]
                                 EXCEPT !.total_subscribers = Len(subscribers[c]),
                                        !.total_pairs = 0]
                         ELSE matching_rounds[i]]
              /\ UNCHANGED <<matches, match_history, outbox, group_posts>>
        /\ (/\ pc[c] = "existing" /\ pc'[c] = "returned" /\ failures' = failures
            /\ matching_rounds[RoundIndex(matching_rounds, month_year[c])].total_subscribers < 2)
           => result'[c].status = "already_done"

\* C21: when fewer than 2 members are subscribed at match time,
\* execute_monthly_matching does not invoke the engine: it finalizes the
\* Round with 0 pairs and the actual subscriber count, creates no Group or
\* HistoricalPair, sends no notification and returns 'not_enough'; a later
\* trigger in the same period returns 'already_done'.
C21_NotEnough == []C21_NothingCreated /\ [][C21_Steps]_vars

\* one member was subscribed: the job returned 'not_enough' for the period
\* and the admin's later call for it returned 'already_done'
C21_Witness ==
    /\ pc["admin"] = "returned" /\ result["admin"].status = "already_done"
    /\ result["admin"].total_subscribers = 1
    /\ result["admin"].total_pairs = 0
    /\ \E i \in DOMAIN matching_rounds :
          /\ matching_rounds[i].month_year = result["admin"].month_year
          /\ matching_rounds[i].total_subscribers = 1
          /\ GroupsOf(matching_rounds[i].id) = {}
    /\ group_posts = <<>>

\* the (match, member) pairs of the Groups of the current period's Round
CurrentMembers ==
    IF get_current_round(matching_rounds, now) = None THEN {}
    ELSE LET rid == matching_rounds[get_current_round(matching_rounds, now)].id
         IN  {<<matches[p[1]].id, p[2]>> :
                p \in {q \in GroupsOf(rid) \X Users : q[2] \in MembersOf(matches[q[1]])}}

\* C22 (states): a matching call that returned 'success' made one
\* notification attempt for every member of every Group of its Round,
\* however many of them failed.
C22_AllNotified ==
    (pc["job"] = "returned" /\ result["job"].status = "success")
    => LET rid == matching_rounds[RoundIndex(matching_rounds,
                                             result["job"].month_year)].id
       IN  \A i \in GroupsOf(rid) : \A u \in MembersOf(matches[i]) :
              NotifCount(rid, u) = 1

\* C22 (steps): a notification or prompt, delivered or not, is followed by
\* the next member, the next Group or the end of the loop; the loops end
\* only after their last iteration, and the follow-up loop iterates over
\* every member of every Group of the Round.
C22_Steps ==
    /\ pc["job"] = "notify"
       => /\ pc'["job"] \in {"notify", "create_match", "announce"}
          /\ pc'["job"] = "announce"
             => /\ gi["job"] = Len(match_groups["job"])
                /\ si["job"] = Len(match_groups["job"][gi["job"]])
    /\ \A c \in FCallers :
          /\ (f_pc[c] = "round" /\ f_pc'[c] # "round")
             => {<<f_todo'[c][k].match_id, f_todo'[c][k].user_id>> :
                    k \in DOMAIN f_todo'[c]} = CurrentMembers
          /\ f_pc[c] \in {"prompt", "create"}
             => /\ f_todo'[c] \in {f_todo[c], Tail(f_todo[c])}
                /\ f_pc'[c] = "idle" => Len(f_todo[c]) = 1

\* C22: a delivery failure to one member (permanent rejection, or transient
\* errors on every attempt) never aborts the matching or follow-up loop:
\* every other member of every group still gets a delivery attempt and the
\* job body completes without raising.
C22_LoopsContinue == []C22_AllNotified /\ [][C22_Steps]_vars

\* the follow-up run is over: the prompt of the first member of the Group
\* failed, the second member was still prompted
C22_Witness ==
    /\ \A c \in FCallers : f_pc[c] = "idle"
    /\ failures = 1 /\ now = 1 /\ day = FOLLOWUP_DAY
    /\ \E i \in DOMAIN matches :
          /\ ~BagIn(Prompt(matches[i].id, matches[i].user1_id), delivered)
          /\ FollowUpRows(matches[i].id, matches[i].user1_id) = {}
          /\ BagIn(Prompt(matches[i].id, matches[i].user2_id), delivered)
          /\ FollowUpRows(matches[i].id, matches[i].user2_id) # {}

\* the attempt at which the gateway rejects the send for good, 0 if the
\* attempts made before it do not all ask for another one
RejectedAt(outs) ==
    IF \E a \in DOMAIN outs :
          /\ outs[a] = "forbidden"
          /\ \A b \in 1..(a - 1) : outs[b] \in {"retry_after", "error"}
    THEN CHOOSE a \in DOMAIN outs :
          /\ outs[a] = "forbidden"
          /\ \A b \in 1..(a - 1) : outs[b] \in {"retry_after", "error"}
    ELSE 0

\* C23 (states): after a delivery the gateway rejected for good, the
\* rejected attempt was the last one made (the only one when the first
\* attempt is rejected), the call returned False and the member's flag is off.
C23_Rejected ==
    (send_call.done /\ RejectedAt(send_call.outs) # 0)
    => /\ send_call.attempts = RejectedAt(send_call.outs)
       /\ send_call.outs[1] = "forbidden" => send_call.attempts = 1
       /\ ~send_call.returned
       /\ ~can_receive_dm[send_call.user_id]

\* C23 (steps): the delivery changes no other member's flag.
C23_Steps ==
    (~send_call.done /\ send_call'.done)
    => \A u \in Users \ {send_call.user_id} : can_receive_dm'[u] = can_receive_dm[u]

C24_BoundedRuns ==
    \A j \in JobIds :
        LET job == retry_jobs[j] IN
        /\ job.runs <= 3 /\ job.runs <= MAX_RETRIES
        /\ job.slept \in {<<>>, <<60>>, <<60, 120>>}
        /\ job.fatal => job.pc = "done" /\ job.runs = 3 /\ job.slept = <<60, 120>>
        /\ (job.pc = "done" /\ ~job.fatal) => job.runs = Len(job.slept) + 1
        /\ job.pc = "body" => job.runs = Len(job.slept) /\ job.runs = job.attempt
        /\ job.pc = "sleep" => job.runs = Len(job.slept)

\* C24 (steps): a finished job stays finished (nothing is raised to the
\* scheduler, nothing runs again) and no step takes back a committed write.
C24_Steps ==
    \A j \in JobIds :
        /\ retry_jobs[j].pc = "done" => retry_jobs'[j] = retry_jobs[j]
        /\ retry_jobs'[j].commits >= retry_jobs[j].commits
        /\ retry_jobs'[j].runs > retry_jobs[j].runs
           => retry_jobs'[j].commits = retry_jobs[j].commits

\* C24: each of the three jobs runs its body at most MAX_RETRIES = 3 times
\* per trigger, stops at the first attempt that does not raise, waits 60 s,
\* then 120 s between attempts, and after the third failure logs a fatal
\* message and terminates without raising to the scheduler and without
\* rolling back what earlier attempts persisted.
C24_RetryLoop == []C24_BoundedRuns /\ [][C24_Steps]_vars

\* one job gave up after three failures with its writes kept, another
\* stopped at its second attempt
C24_Witness ==
    \E j, k \in JobIds :
        /\ retry_jobs[j].pc = "done" /\ retry_jobs[j].fatal
        /\ retry_jobs[j].runs = 3 /\ retry_jobs[j].commits = 2
        /\ retry_jobs[k].pc = "done" /\ ~retry_jobs[k].fatal
        /\ retry_jobs[k].runs = 2 /\ retry_jobs[k].slept = <<60>>

\* C25: in a matching run the Groups are persisted and their
\* HistoricalPairs recorded before the round stats are finalized, and the
\* members are notified after: at the step that finalizes the stats of a
\* Round every Group of the plan is already a row of matches with its pairs
\* in match_history, and at every notification the stats are final.
C25_GroupsBeforeStats ==
    [][\A c \in Callers :
          /\ finalize_round(c) =>
                /\ Cardinality(GroupsOf(round_obj[c])) = Len(match_groups[c])
                /\ \A g \in 1..Len(match_groups[c]) :
                      \A pr \in OrderedPairs(GroupSet(match_groups[c][g])) :
                          have_been_matched(match_history, pr[1], pr[2])
          /\ notify_member(c) =>
                /\ RoundRow(round_obj[c]).total_subscribers = Len(subscribers[c])
                /\ RoundRow(round_obj[c]).total_pairs = Len(match_groups[c])]_vars

\* no (group, member) is delivered two yes/no prompts
C26_OnePromptEach ==
    \A i \in DOMAIN matches : \A u \in MembersOf(matches[i]) :
        CopiesIn(Prompt(matches[i].id, u), delivered) <= 1

\* C26: the follow-up job never runs concurrently with itself, a run fired
\* by the scheduler and a run started by test_followup included, and each
\* (group, member) is delivered at most one yes/no prompt.
C26_OneRunAtATime ==
    /\ Cardinality({c \in FCallers : f_pc[c] # "idle"}) <= 1
    /\ C26_OnePromptEach

\* position of a member in the shuffled list
Pos(us, u) == CHOOSE j \in DOMAIN us : us[j] = u

\* what the scan step leaves: its groups and the unmatched pool
ScanResult == ScanUsers(g_users, 1, {}, <<>>, <<>>, g_hist)

\* the members committed to a scan group when the scan reaches u
Committed(u) ==
    UNION {GroupSet(ScanResult.matches[m]) : m \in
              {k \in DOMAIN ScanResult.matches :
                  Pos(g_users, ScanResult.matches[k][1]) < Pos(g_users, u)}}

\* positions of the members u can be paired with at its turn
CleanPartners(u) ==
    {j \in DOMAIN g_users :
        /\ g_users[j] # u
        /\ g_users[j] \notin Committed(u)
        /\ SortedPair(u, g_users[j]) \notin g_hist}

\* C27: in the scan step the partner chosen for a member u is the first
\* member in shuffled order, among the members not yet committed to a group,
\* whose pair with u is not in the history; u goes to the unmatched pool
\* only if there is no such member; every group of the scan step is a pair
\* that is not in the history.
C27_FirstCleanPartner ==
    g_pc = "output" =>
        /\ \A m \in DOMAIN ScanResult.matches :
              LET u == ScanResult.matches[m][1]
                  partner == ScanResult.matches[m][2]
              IN  /\ Len(ScanResult.matches[m]) = 2
                  /\ u \notin Committed(u)
                  /\ CleanPartners(u) # {}
                  /\ \A j \in CleanPartners(u) : Pos(g_users, partner) <= j
                  /\ Pos(g_users, partner) \in CleanPartners(u)
                  /\ SortedPair(u, partner) \notin g_hist
                  /\ m <= Len(g_matches)
                  /\ SubSeq(g_matches[m], 1, 2) = ScanResult.matches[m]
        /\ \A k \in DOMAIN ScanResult.unmatched :
              /\ ScanResult.unmatched[k] \notin Committed(ScanResult.unmatched[k])
              /\ CleanPartners(ScanResult.unmatched[k]) = {}
        /\ \A u \in g_roster :
              \/ \E m \in DOMAIN ScanResult.matches : u \in GroupSet(ScanResult.matches[m])
              \/ \E k \in DOMAIN ScanResult.unmatched : ScanResult.unmatched[k] = u

\* a scan that skipped a member in history to reach the partner, and left
\* two members in the pool
C27_Witness ==
    /\ g_pc = "output"
    /\ Len(ScanResult.unmatched) = 2
    /\ \E m \in DOMAIN ScanResult.matches :
          /\ Pos(g_users, ScanResult.matches[m][2])
                > Pos(g_users, ScanResult.matches[m][1]) + 1

\* the members of the unmatched pool at the end of the scan
Pool == GroupSet(ScanResult.unmatched)

\* C28: at the end of the scan any two members of the unmatched pool form a
\* pair that is in the history, and no pool member is in a scan group (it is
\* never picked as a clean partner, although it is not marked used); so
\* every group the drain step forms is a repeat, and with an empty history
\* the pool holds at most one member.
C28_PoolIsExhausted ==
    g_pc = "output" =>
        /\ \A a, b \in Pool : a # b => SortedPair(a, b) \in g_hist
        /\ Len(ScanResult.unmatched) = Cardinality(Pool)
        /\ \A m \in DOMAIN ScanResult.matches :
              GroupSet(ScanResult.matches[m]) \cap Pool = {}
        /\ \A m \in (Len(ScanResult.matches) + 1)..Len(g_matches) :
              /\ SortedPair(g_matches[m][1], g_matches[m][2]) \in g_hist
              /\ {g_matches[m][1], g_matches[m][2]} \subseteq Pool
        /\ Len(g_matches) = Len(ScanResult.matches) + (Len(ScanResult.unmatched) \div 2)
        /\ g_hist = {} => Len(ScanResult.unmatched) <= 1

\* a pool of two or more next to a scan group, drained into a repeat group,
\* with a pool member standing before the partner a scan group picked
C28_Witness ==
    /\ g_pc = "output"
    /\ Len(ScanResult.unmatched) >= 2
    /\ ScanResult.matches # <<>>
    /\ Len(g_matches) > Len(ScanResult.matches)
    /\ \E u \in Pool : \E m \in DOMAIN ScanResult.matches :
          Pos(g_users, u) < Pos(g_users, ScanResult.matches[m][2])

\* C29: a run of the job that returns 'success' for a roster of n >= 2
\* subscribers has persisted exactly floor(n / 2) Groups for its Round, and
\* the Round it finalized has total_subscribers = n and total_pairs =
\* floor(n / 2), the number of Groups persisted.
C29_HalfTheRoster ==
    (pc["job"] = "returned" /\ result["job"].status = "success") =>
        /\ SubscriberCount >= 2
        /\ Cardinality(GroupsOf(JobRound.id)) = SubscriberCount \div 2
        /\ JobRound.total_subscribers = SubscriberCount
        /\ JobRound.total_pairs = SubscriberCount \div 2
        /\ JobRound.total_pairs = Cardinality(GroupsOf(JobRound.id))
        /\ result["job"].total_subscribers = SubscriberCount
        /\ result["job"].total_pairs = SubscriberCount \div 2

\* the second period of an odd roster: one Group of three for three
\* subscribers
C29_Witness ==
    /\ pc["job"] = "returned" /\ result["job"].status = "success"
    /\ now = 2
    /\ SubscriberCount = 3
    /\ JobRound.total_pairs = 1
    /\ \E i \in GroupsOf(JobRound.id) : Cardinality(MembersOf(matches[i])) = 3

\* C30 (states): every Group belongs to exactly one existing Round and has
\* 2 or 3 pairwise distinct members; within one Round no member is in more
\* than one Group.
C30_WellFormedGroups ==
    /\ \A i \in DOMAIN matches :
          /\ Cardinality({j \in DOMAIN matching_rounds :
                             matching_rounds[j].id = matches[i].round_id}) = 1
          /\ matches[i].id = i
          /\ matches[i].user1_id # None /\ matches[i].user2_id # None
          /\ matches[i].user1_id # matches[i].user2_id
          /\ matches[i].user3_id \notin {matches[i].user1_id, matches[i].user2_id}
          /\ Cardinality(MembersOf(matches[i])) \in {2, 3}
    /\ \A i, j \in DOMAIN matches :
          (i # j /\ matches[i].round_id = matches[j].round_id)
             => MembersOf(matches[i]) \cap MembersOf(matches[j]) = {}

\* C30 (steps): no step modifies or deletes a Group, or deletes a Round.
C30_Steps ==
    /\ \A i \in DOMAIN matches : i \in DOMAIN matches' /\ matches'[i] = matches[i]
    /\ RoundIds \subseteq RoundIds'

\* C30: every persisted Group belongs to exactly one existing Round, has 2
\* or 3 pairwise distinct members and is never modified or deleted after its
\* creation; within one Round no member is in more than one Group, whatever
\* the sequence of triggers.
C30_GroupsImmutable == []C30_WellFormedGroups /\ [][C30_Steps]_vars

\* the same two members grouped again in the second Round, the first Group
\* still in place, after a trigger that found the Round done
C30_Witness ==
    /\ Len(matches) = 2
    /\ matches[1].round_id # matches[2].round_id
    /\ MembersOf(matches[1]) = MembersOf(matches[2])
    /\ \E c \in Callers : pc[c] = "returned" /\ result[c].status = "already_done"

\* C31 (steps): a pair that has been matched stays matched, and no row of
\* the history is removed or changed.
C31_Steps ==
    /\ \A a, b \in Users :
          have_been_matched(match_history, a, b)
             => have_been_matched(match_history', a, b)
    /\ \A i \in DOMAIN match_history :
          i \in DOMAIN match_history' /\ match_history'[i] = match_history[i]
    /\ get_historical_pairs(match_history) \subseteq get_historical_pairs(match_history')

\* C31: the set of historical pairs grows monotonically: once
\* have_been_matched(A, B) is true it stays true after every later operation
\* (matching, follow-up, sweep, removal, subscribe, unsubscribe); no
\* operation removes a history record.
C31_HistoryGrows == [][C31_Steps]_vars

\* a matched pair of which one member was removed for inactivity and the
\* other left, with follow-ups swept, is still in the history
C31_Witness ==
    /\ have_been_matched(match_history, 1, 2)
    /\ \A u \in Users : ~users[u].is_subscribed
    /\ \E u \in Users : Misses(meeting_streaks, u) >= INACTIVITY_THRESHOLD
    /\ \E u \in Users : Misses(meeting_streaks, u) < INACTIVITY_THRESHOLD
    /\ \E i \in DOMAIN follow_ups : follow_ups[i].response = "no"

\* C32 (states): a finished delivery made between 1 and max_retries = 3
\* send attempts, one per outcome consumed; when all three attempts failed
\* with a transient error send_with_retry raised and the delivery is
\* reported as failed.
C32_BoundedAttempts ==
    send_call.done =>
        /\ send_call.attempts \in 1..SEND_MAX_RETRIES
        /\ send_call.attempts <= 3
        /\ \A a \in 1..(send_call.attempts - 1) :
              send_call.outs[a] \in {"retry_after", "error"}
        /\ send_call.attempts < SEND_MAX_RETRIES
              => send_call.outs[send_call.attempts] \in {"ok", "forbidden"}
        /\ (\A a \in 1..SEND_MAX_RETRIES : send_call.outs[a] = "error")
              => /\ send_with_retry(send_call.outs, 1, SEND_MAX_RETRIES) = "raise"
                 /\ send_call.attempts = SEND_MAX_RETRIES
                 /\ ~send_call.returned

\* C32: send_with_retry makes at most max_retries (3) send attempts for any
\* sequence of gateway outcomes and always terminates; when every attempt
\* fails with a transient network error it raises after the last attempt
\* and the delivery is reported as failed, not as a success.
C32_SendTerminates == []C32_BoundedAttempts /\ <>(send_call.done)

\* three transient errors in a row: three attempts, failure reported
C32_Witness ==
    /\ send_call.done
    /\ send_call.outs = <<"error", "error", "error">>
    /\ send_call.attempts = 3
    /\ ~send_call.returned

\* C33: dms_sent counts the members for whom a send attempt was accepted by
\* the gateway, for every sequence of gateway outcomes: at each
\* send_match_notification call of a run, whatever outcomes the gateway gave
\* to the attempts of that call, dms_sent goes up by one exactly when one of
\* the attempts made was accepted.
C33_CountsAccepted ==
    [][\A c \in Callers :
          notify_member(c) =>
             \A outs \in [1..SEND_MAX_RETRIES -> GatewayOutcomes] :
                LET r == send_with_retry(outs, 1, SEND_MAX_RETRIES)
                    counted == IF send_match_notification(r) THEN 1 ELSE 0
                IN  dms_sent'[c] = dms_sent[c] + counted
                       => (dms_sent'[c] = dms_sent[c] + 1 <=> r = "message")]_vars

\* the stored response of the FollowUp of (match, member), Null if no row
C34_StoredResponse(tbl, mid, u) ==
    IF get_followup(tbl, mid, u) = None THEN Null
    ELSE tbl[get_followup(tbl, mid, u)].response

\* C34: the sweep never overrides an explicit reply: when a member's reply
\* was recorded between the sweep's read of the unanswered FollowUps and its
\* write for that FollowUp, the write leaves the stored response as the
\* member's reply and does not raise that member's miss counter.
C34_SweepKeepsReply ==
    [][i_sweep_item =>
          LET followup == Head(i_todo)
              reply == C34_StoredResponse(follow_ups, followup.match_id, followup.user_id)
          IN  reply # Null =>
                 /\ C34_StoredResponse(follow_ups', followup.match_id, followup.user_id) = reply
                 /\ Misses(meeting_streaks', followup.user_id)
                       = Misses(meeting_streaks, followup.user_id)]_vars

\* member u pressed 'yes' under the prompt of match mid
C35_AnsweredYes(u, mid) ==
    \E k \in DOMAIN responses[u] :
        responses[u][k].match_id = mid /\ responses[u][k].response = "yes"

\* C35: a member who answered 'yes' to a delivered follow-up prompt is never
\* later counted as a miss for that prompt by the sweep, also when the
\* button callback was handled between the delivery of the prompt and the
\* job's create_followup for that (group, member).
C35_YesIsNoMiss ==
    [][i_sweep_item =>
          LET followup == Head(i_todo) IN
          C35_AnsweredYes(followup.user_id, followup.match_id) =>
             Misses(meeting_streaks', followup.user_id)
                = Misses(meeting_streaks, followup.user_id)]_vars

\* the FollowUps of a member that hold a 'no'
C36_NoReplies(u) ==
    {i \in DOMAIN follow_ups : follow_ups[i].user_id = u /\ follow_ups[i].response = "no"}

\* C36 as claimed: a sweep run again changes nothing, so each unanswered
\* FollowUp contributes exactly one increment in total: the miss counter of
\* a member who was never removed is the number of their FollowUps turned
\* into 'no'.
C36_ExactlyOneIncrement ==
    \A u \in Users :
        users[u].is_subscribed => Misses(meeting_streaks, u) = Cardinality(C36_NoReplies(u))

\* C36 (states): at most one increment per swept FollowUp, and exactly one
\* as long as no run has failed.
C36_AtMostOne ==
    \A u \in Users :
        users[u].is_subscribed =>
           /\ Misses(meeting_streaks, u) <= Cardinality(C36_NoReplies(u))
           /\ failures = 0 => Misses(meeting_streaks, u) = Cardinality(C36_NoReplies(u))

\* C36 (steps): a FollowUp that holds a response is not changed by any run,
\* first or repeated, and a miss counter goes up only by one and only in a
\* step that turns an unanswered FollowUp of the member into 'no'.
C36_Steps ==
    /\ \A i \in DOMAIN follow_ups :
          follow_ups[i].response # Null
             => i \in DOMAIN follow_ups' /\ follow_ups'[i] = follow_ups[i]
    /\ \A u \in Users :
          Misses(meeting_streaks', u) > Misses(meeting_streaks, u)
             => /\ Misses(meeting_streaks', u) = Misses(meeting_streaks, u) + 1
                /\ \E i \in DOMAIN follow_ups :
                      /\ follow_ups[i].user_id = u
                      /\ follow_ups[i].response = Null
                      /\ follow_ups'[i].response = "no"
    /\ (i_pc = "sweep" /\ i_pc' # "sweep")
          => \A k \in DOMAIN i_todo' : i_todo'[k].response = Null

\* C36 as amended: a sweep run again (job retry or the next trigger)
\* changes no FollowUp that holds a response and no miss counter for it, so
\* each unanswered FollowUp contributes at most one increment in total, and
\* exactly one when no run of the job has failed.
C36_SweepIdempotent == []C36_AtMostOne /\ [][C36_Steps]_vars

\* the job is over after a retry: the 'no' of one member was counted, the
\* 'no' of the other was recorded by the attempt that raised and never counted
C36_Witness ==
    /\ i_pc = "idle" /\ "inactivity_check" \in cron_fired
    /\ failures = 1
    /\ \E u, v \in Users :
          /\ users[u].is_subscribed /\ users[v].is_subscribed
          /\ Cardinality(C36_NoReplies(u)) = 1 /\ Misses(meeting_streaks, u) = 1
          /\ Cardinality(C36_NoReplies(v)) = 1 /\ Misses(meeting_streaks, v) = 0

\* the Groups of the Round of the current period
C37_CurrentGroups ==
    IF get_current_round(matching_rounds, now) = None THEN {}
    ELSE GroupsOf(matching_rounds[get_current_round(matching_rounds, now)].id)

\* C37 (states): with one run at a time no prompt is delivered twice, and a
\* run that found no Round for the current period is over.
C37_OnePrompt ==
    /\ Cardinality({c \in FCallers : f_pc[c] # "idle"}) <= 1
    /\ \A u \in Users : \A mid \in DOMAIN matches :
          CopiesIn(Prompt(mid, u), delivered) \in {0, 1}
    /\ \A c \in FCallers :
          f_pc[c] \in {"prompt", "create"} =>
             /\ get_current_round(matching_rounds, now) # None
             /\ \A k \in DOMAIN f_todo[c] : f_todo[c][k].match_id \in C37_CurrentGroups

\* C37 (steps): a run attempts a prompt only for a member of a Group of the
\* current period who has no FollowUp, creates FollowUps only for such
\* Groups, and does nothing when there is no Round for the period.
C37_Steps ==
    \A c \in FCallers :
        /\ (f_pc[c] = "prompt" /\ <<f_pc'[c], f_todo'[c]>> # <<f_pc[c], f_todo[c]>>) =>
              LET item == Head(f_todo[c]) IN
              IF get_followup(follow_ups, item.match_id, item.user_id) # None
              THEN delivered' = delivered /\ failures' = failures
                   /\ f_pc'[c] # "create"
              ELSE /\ item.match_id \in C37_CurrentGroups
                   /\ item.user_id \in MembersOf(matches[item.match_id])
        /\ (f_pc[c] = "create" /\ <<f_pc'[c], f_todo'[c]>> # <<f_pc[c], f_todo[c]>>) =>
              /\ Len(follow_ups') = Len(follow_ups) + 1
              /\ follow_ups'[Len(follow_ups')].match_id \in C37_CurrentGroups
        /\ (f_pc[c] = "round" /\ f_pc'[c] # "round"
            /\ get_current_round(matching_rounds, now) = None) =>
              /\ f_pc'[c] = "idle"
              /\ delivered' = delivered /\ follow_ups' = follow_ups

\* C37 (retry): a member of a current Group to whom no prompt was
\* delivered has no FollowUp, so the next run attempts the delivery again.
C37_FailedIsRetried ==
    \A i \in C37_CurrentGroups : \A u \in MembersOf(matches[i]) :
        CopiesIn(Prompt(i, u), delivered) = 0 => get_followup(follow_ups, i, u) = None

\* C37: sequential re-runs of the follow-up job in one period prompt only
\* members of the current period's groups that have no FollowUp yet: a
\* member with a FollowUp, answered or not, is never prompted again, a member
\* whose earlier delivery failed is attempted again, and when no Round
\* exists for the current period no prompt is sent and no FollowUp created.
C37_RerunsPromptTheRest ==
    /\ []C37_OnePrompt
    /\ [][C37_Steps]_vars
    /\ []C37_FailedIsRetried

\* C38 (states): at most one summary per period; a period with a summary
\* has a Round with groups, all of them persisted, and a delivery attempt
\* was made for every member of every group.
C38_PostedOnce ==
    /\ \A i, j \in DOMAIN group_posts : i # j => group_posts[i] # group_posts[j]
    /\ \A i \in DOMAIN group_posts :
          /\ RoundIndex(matching_rounds, group_posts[i]) # None
          /\ LET r == matching_rounds[RoundIndex(matching_rounds, group_posts[i])] IN
             /\ r.total_pairs >= 1
             /\ Cardinality(GroupsOf(r.id)) = r.total_pairs
             /\ \A g \in GroupsOf(r.id) : \A u \in MembersOf(matches[g]) :
                   NotifCount(r.id, u) >= 1

\* C38 (steps): the summary is posted by the call that created the Round,
\* at its end, and a call that ends with 'already_done' or 'not_enough'
\* posts nothing.
C38_Steps ==
    /\ group_posts' # group_posts =>
          \E c \in Callers :
             /\ pc[c] = "announce" /\ pc'[c] = "returned"
             /\ result'[c].status = "success"
             /\ round_obj[c] # None
             /\ RoundRow(round_obj[c]).month_year = month_year[c]
             /\ group_posts' = Append(group_posts, month_year[c])
    /\ \A c \in Callers :
          (pc[c] # "returned" /\ pc'[c] = "returned"
           /\ result'[c].status \in {"already_done", "not_enough"})
             => group_posts' = group_posts

\* C38: the group-channel summary is posted at most once per period, only
\* by the run that created the Round and formed groups, and only after a
\* delivery attempt has been made for every member of every group; it is
\* not posted on the 'already_done' or 'not_enough' paths.
C38_SummaryOnce == []C38_PostedOnce /\ [][C38_Steps]_vars

\* both periods have their summary, and a second trigger of the second
\* period has returned 'already_done' without posting
C38_Witness ==
    /\ group_posts = <<1, 2>>
    /\ \E c \in Callers :
          /\ pc[c] = "returned"
          /\ result[c].status = "already_done"
          /\ result[c].month_year = 2

\* the member the removal loop is unsubscribing in this step
C39_Removing(u) ==
    /\ i_pc = "remove" /\ i_todo # <<>> /\ Head(i_todo) = u
    /\ users[u].is_subscribed /\ ~users'[u].is_subscribed

\* the row of the Round of the current period
C39_CurrentRound == matching_rounds[get_current_round(matching_rounds, now)]

C40_Steps ==
    /\ join_call.pc = "unsubscribe" /\ join_call' # join_call
          => /\ join_call.was_subscribed
             /\ ~users'[join_call.user_id].is_subscribed
             /\ join_call'.outcome = "left"
    /\ \A u \in Users :
          ~users[u].is_subscribed /\ users'[u].is_subscribed
             => /\ join_call.pc = "subscribe" /\ join_call.user_id = u
                /\ ~join_call.was_subscribed
                /\ join_call.welcome = "ok"
                /\ join_call'.pc = "set_flag"
    /\ join_call'.outcome = "joined" /\ join_call.outcome # "joined"
          => /\ join_call.welcome = "ok" /\ ~join_call.was_subscribed
             /\ can_receive_dm'[join_call.user_id]
    /\ join_call.pc = "welcome" /\ join_call'.welcome = "forbidden"
          => /\ join_call'.outcome = "alert" /\ join_call'.pc = "done"
             /\ users' = users /\ can_receive_dm' = can_receive_dm
             /\ ~users'[join_call.user_id].is_subscribed

\* a handler past its read has not seen its member subscribed by anybody
\* else, and only the path of a delivered welcome DM reaches the two writes
C40_HandlerState ==
    /\ join_call.pc = "welcome" => ~users[join_call.user_id].is_subscribed
    /\ join_call.pc \in {"subscribe", "set_flag"} => join_call.welcome = "ok"
    /\ join_call.outcome \in {"alert", "raised"}
          => join_call.welcome \in {"forbidden", "error"} /\ ~join_call.was_subscribed
    /\ join_call.outcome = "left" <=> (join_call.pc = "done" /\ join_call.was_subscribed)

C40_JoinToggles == []C40_HandlerState /\ [][C40_Steps]_vars

\* member 1 is subscribed, which only a handler with a delivered welcome DM
\* does, and has the flag set; the handler of member 2, whose flag a job had
\* cleared, ended on a rejected welcome DM and member 2 is not subscribed
C40_Witness ==
    /\ join_call.pc = "done" /\ join_call.outcome = "alert" /\ join_call.user_id = 2
    /\ ~users[2].is_subscribed
    /\ users[1].is_subscribed /\ can_receive_dm[1] /\ ~can_receive_dm[2]

====
